---- MODULE Spec2Model ----
(***************************************************************************)
(* Model of snitchvisbot (src/main.py, src/db.py, src/client.py): the      *)
(* ingestion pipeline (startup sweep, .index backfill, live ingestion),    *)
(* the livemap refresh scheduler and the render admission gates.           *)
(*                                                                         *)
(* The bot runs on one cooperative event loop: every action below is the   *)
(* code that runs between two suspension points (await) of one handler.    *)
(***************************************************************************)
EXTENDS Integers, Sequences, FiniteSets, Bags, TLC

----------------------------------------------------------------------------
(* Bounds of the model *)

\* number of messages ever posted in the snitch channels
MaxMsgs == 2
\* number of discord channels that can be snitch channels
NumChannels == 2
\* number of .index commands that can run at the same time
NumIndex == 2

\* number of channels that can be the livemap channel of the guild
NumLivemaps == 2
\* number of handlers (live ingestion, set-livemap-channel) running at once
NumCallers == 2
\* snitch messages that notify the livemap
MaxNotifies == 2
\* set-livemap-channel commands
MaxSets == 1
\* messages and commands arrive during the first QuietAfter seconds
QuietAfter == 10
\* the clock stops at MaxTime seconds
MaxTime == 80
\* a livemap render takes at most MaxRenderTime seconds
MaxRenderTime == 10

\* handlers running a render command at once
NumRenders == 3
\* render and set-pixel-multiplier commands
MaxRequests == 3
\* the largest pixel_limit_multiplier of the guild
MaxMultiplier == 2
\* renders recorded before the start
PriorRenders == 66
\* the most messages in the history of a channel when a backfill of it starts
MaxHistory == 5
\* discord roles of the guild
NumRoles == 2
\* the most rows of snitch_channel_allowed_roles
MaxRoleRows == 4
\* the depth at which the interpreter ends a recursion with RecursionError
MaxDepth == 3
\* the most timestamps of a channel that are due when the refresh loop starts
MaxDue == 5
\* number of messages ever posted where one startup sweep is followed to its end
MaxSweepMsgs == 3
\* kira configs a guild can have, and the most it has at a time
NumConfigs == 3
MaxConfigs == 2
\* the most timestamps left of a schedule that is followed to its end
MaxLeft == 2

(* Program constants, src/main.py *)
\* Snitchvis.MAXIMUM_CONCURRENT_RENDERS
MAXIMUM_CONCURRENT_RENDERS == 2
\* check_outdated_livemaps: @loop(seconds=10)
SweepPeriod == 10
\* update_livemap_channel: timedelta(seconds=12)
FirstRefresh == 12
\* update_livemap_channel: range(1, 10 + 1)
RefreshCount == 10
\* update_livemap_channel: timedelta(seconds=i * 60)
RefreshSpacing == 60
\* update_livemap_channel: timedelta(seconds=10)
Debounce == 10

\* seconds the clock advances in one step
TimeStep == SweepPeriod \div 2

Max(S) == CHOOSE x \in S : \A y \in S : y <= x
Min(S) == CHOOSE x \in S : \A y \in S : x <= y

Channels == 1..NumChannels
LChannels == 1..NumLivemaps
Callers == 1..NumCallers
Renders == 1..NumRenders
MsgIds == 1..Max({MaxMsgs, MaxHistory, MaxSweepMsgs, NumLivemaps + MaxNotifies})
IndexTasks == 1..NumIndex
Roles == 1..NumRoles

\* message contents: a snitch ping in the default kira format, or anything else
Contents == {"ping", "chat"}

\* the one guild of the ingestion model
TheGuild == "guild"

\* config.DEFAULT_PREFIX, src/client.py line 20: "The default prefix is `.`"
\* (src/main.py line 1211)
default_prefix == "."

----------------------------------------------------------------------------
VARIABLES
    \* discord, the chat platform
    history,            \* all messages, history[id] = [channel, content]
    readable,           \* channels the bot can see and read
    guild_channels,     \* channels of the guild: guild.get_channel finds them
    connected,          \* the gateway delivers messages to the bot
    gateway,            \* ids of the messages whose MESSAGE_CREATE is on its way
    \* the database (src/db.py)
    snitch_channel,     \* table snitch_channel: channel id -> last_indexed_id (0 is NULL)
    snitch_channel_allowed_roles,   \* table: the rows [channel_id, role_id] in the order of insertion
    event,              \* table event: message_id -> number of rows
    \* Snitchvis.__init__
    defer_indexing,
    indexing_queue,
    indexing_guilds,
    \* running handlers
    ready,              \* the on_ready invocation
    index,              \* the .index command invocations
    \* observations
    raised,             \* exceptions raised so far, [exc, id]
    reinserted,         \* message ids add_event was called for while a row existed
    raced,              \* message ids a sweep backfill read while they were queued
    late,               \* message ids queued while the drain was suspended
    ready_again,        \* an on_ready invocation that began while `ready` was running
    aborted,            \* the backfills that raised after their first write
    \* commands (src/client.py, src/db.py command)
    command,            \* table command: name -> command_text
    prefix,             \* the guild's prefix: its row in table guild and Client.prefixes
    handled,            \* what maybe_handle_command did with the last command message
    parsed,             \* the last call of parse_event with the guild's formats
    reindexed,          \* a .full-reindex -y has dropped the events and the cursors
    invoking,           \* the on_message handlers suspended in a command: [m, kind, t]
    \* the clock, in seconds
    now,
    \* the livemap (src/main.py lines 64-70, src/db.py livemap_channel)
    livemap_channel,            \* channel_id of the guild's row, 0 without a row
    error_log_channel,          \* config.ERROR_LOG_CHANNEL is set
    livemap_last_uploaded,      \* dict: channel id -> time
    livemaps_refresh_at,        \* dict in insertion order: <<[key, val]>>
    livemap_updating_channels,  \* list of channel ids
    caller,             \* handlers that notify or run set-livemap-channel
    sweep,              \* the check_outdated_livemaps loop
    since,              \* per channel, what happened since it was last notified
    arrived,            \* the notifications and commands so far
    \* render admission (src/main.py line 75, src/db.py guild, render_history)
    multiplier,         \* guild.pixel_limit_multiplier
    concurrent_renders, \* concurrent_renders[guild]
    render_history,     \* bag of rows [pixel_usage, timestamp]
    render,             \* the handlers of the render commands
    asked,              \* the estimate of the last render command and its verdict
    requests            \* render and set-pixel-multiplier commands so far

\* ingestVars without aborted, the content of the open transaction
ingestKept == <<history, readable, guild_channels, connected, gateway, snitch_channel,
    snitch_channel_allowed_roles, event, defer_indexing,
    indexing_queue, indexing_guilds, ready, index, raised, reinserted, raced, late,
    command, prefix, handled, parsed, reindexed, invoking, ready_again>>

ingestVars == <<history, readable, guild_channels, connected, gateway, snitch_channel,
    snitch_channel_allowed_roles, event, defer_indexing,
    indexing_queue, indexing_guilds, ready, index, raised, reinserted, raced, late,
    command, prefix, handled, parsed, reindexed, invoking, ready_again, aborted>>

commandKept == <<command, prefix, handled, parsed, reindexed>>

commandVars == <<commandKept, invoking>>

\* what the indexing half of on_message writes (src/main.py lines 161-164),
\* the open transaction apart
indexedVars == <<snitch_channel, event, raised, reinserted, indexing_queue, late>>

\* ingestKept without indexedVars and invoking
handlerKept == <<history, readable, guild_channels, connected, gateway,
    snitch_channel_allowed_roles, defer_indexing, indexing_guilds, ready, index, raced,
    commandKept, ready_again>>

livemapVars == <<livemap_channel, error_log_channel, livemap_last_uploaded,
    livemaps_refresh_at, livemap_updating_channels, caller, sweep, since, arrived>>

renderVars == <<multiplier, concurrent_renders, render_history, render, asked, requests>>

vars == <<ingestVars, now, livemapVars, renderVars>>

----------------------------------------------------------------------------
(* Helpers *)

RECURSIVE Descending(_)
\* the ids of S, newest (largest) first
Descending(S) ==
    IF S = {} THEN <<>> ELSE <<Max(S)>> \o Descending(S \ {Max(S)})

Range(s) == {s[i] : i \in DOMAIN s}

\* list.remove(x): removes the first occurrence
RECURSIVE ListRemove(_, _)
ListRemove(s, x) ==
    IF s = <<>> THEN <<>>
    ELSE IF Head(s) = x THEN Tail(s)
    ELSE <<Head(s)>> \o ListRemove(Tail(s), x)

\* ids of the messages of channel c
ChannelMessages(c) == {m \in DOMAIN history : history[m].channel = c}

----------------------------------------------------------------------------
(* src/main.py parse_event: the parser is an external collaborator; a
   message either matches a configured format or raises
   InvalidEventException *)
parse_event(content) == content = "ping"

\* the default kira config, and the kira configs a guild can have
DefaultConfig == 0
KiraConfigs == 1..NumConfigs

\* a raw event, as the set of the configs whose formats its text matches
RawEvents == SUBSET ({DefaultConfig} \cup KiraConfigs)

\* parse_event, lines 356-366: Event.parse with the formats of one config
\* returns an event or raises InvalidEventException
EventParse(raw_event, kira_config) ==
    IF kira_config \in raw_event
    THEN [ok |-> TRUE, event |-> [raw |-> raw_event, config |-> kira_config]]
    ELSE [ok |-> FALSE, event |-> [raw |-> raw_event, config |-> -1]]

RECURSIVE TryConfigs(_, _, _)
\* parse_event, lines 355-371: the loop over the configs; tried lists the
\* configs Event.parse was called with
TryConfigs(raw_event, configs, tried) ==
    IF configs = <<>>
    THEN [ok |-> FALSE, event |-> [raw |-> raw_event, config |-> -1], tried |-> tried]
    ELSE LET r == EventParse(raw_event, Head(configs))
         IN IF r.ok
            THEN [ok |-> TRUE, event |-> r.event, tried |-> Append(tried, Head(configs))]
            ELSE TryConfigs(raw_event, Tail(configs), Append(tried, Head(configs)))

\* as parse_event_configs, with the guild's configs before the default one
parse_event_guild_first(raw_event, kira_configs) ==
    TryConfigs(raw_event, kira_configs \o <<DefaultConfig>>, <<>>)

\* parse_event, line 355: [self.default_kira_config] + kira_configs
parse_event_configs(raw_event, kira_configs) ==
    TryConfigs(raw_event, <<DefaultConfig>> \o kira_configs, <<>>)

NotParsed == [called |-> FALSE, raw_event |-> {}, kira_configs |-> <<>>,
              result |-> [ok |-> FALSE, event |-> [raw |-> {}, config |-> -1], tried |-> <<>>]]

----------------------------------------------------------------------------
(* src/db.py *)

\* allowed_roles: the role ids of the rows of the channel
allowed_roles(rows, channel_id) ==
    {rows[i].role_id : i \in {j \in DOMAIN rows : rows[j].channel_id = channel_id}}

RECURSIVE new_rows(_, _, _)
\* get_snitch_channels, lines 313-321: the channel ids of the joined rows in
\* the order of their first row (a dict keeps the order of insertion)
new_rows(rows, sc, ids) ==
    IF rows = <<>> THEN ids
    ELSE LET channel_id == Head(rows).channel_id
         IN  new_rows(Tail(rows), sc,
                      IF channel_id \in DOMAIN sc /\ channel_id \notin Range(ids)
                      THEN Append(ids, channel_id)
                      ELSE ids)

\* get_snitch_channels, lines 299-323: the rows of snitch_channel that join
\* a row of snitch_channel_allowed_roles, as SnitchChannel objects (a
\* snapshot of last_indexed_id). The query has no ORDER BY: sqlite scans
\* snitch_channel_allowed_roles in the order its rows were inserted and
\* looks each channel up by its primary key
get_snitch_channels ==
    LET ids == new_rows(snitch_channel_allowed_roles, snitch_channel, <<>>)
    IN [i \in DOMAIN ids |-> [id |-> ids[i], last_indexed_id |-> snitch_channel[ids[i]]]]

\* get_events, lines 411-434: the channels whose events a member holding
\* `roles` is shown
ViewableChannels(sc, rows, roles) ==
    {c \in DOMAIN sc : allowed_roles(rows, c) \cap roles # {}}

\* remove_snitch_channel: DELETE FROM snitch_channel WHERE id = ?; the rows
\* of snitch_channel_allowed_roles are not touched
RolesAfterRemove(rows, channels) == rows

\* add_snitch_channel: one row of snitch_channel_allowed_roles per role, in
\* the order of the list of roles
RolesAfterAdd(rows, channel_id, roles) ==
    rows \o [i \in DOMAIN roles |-> [channel_id |-> channel_id, role_id |-> roles[i]]]

\* update_last_indexed: UPDATE snitch_channel SET last_indexed_id = ? WHERE id = ?
update_last_indexed(sc, channel_id, message_id) ==
    IF channel_id \in DOMAIN sc
    THEN [sc EXCEPT ![channel_id] = message_id]
    ELSE sc

\* add_event: INSERT INTO event; message_id is the primary key, so inserting
\* a message_id that has a row raises sqlite3.IntegrityError and inserts nothing
add_event(ev, m) ==
    IF ev[m] > 0
    THEN [event |-> ev, ok |-> FALSE]
    ELSE [event |-> [ev EXCEPT ![m] = @ + 1], ok |-> TRUE]

----------------------------------------------------------------------------
(* src/main.py index_channel *)

\* as BufferedEvents, reading the message the cursor names once more
BufferedEventsFromCursor(c, last_id) ==
    Descending({m \in ChannelMessages(c) :
        /\ (last_id = 0 \/ m >= last_id)
        /\ parse_event(history[m].content)})

\* the loop over discord_channel.history(limit=None): newest first, stops at
\* the first id <= last_id, buffers the messages that parse
BufferedEvents(c, last_id) ==
    Descending({m \in ChannelMessages(c) :
        /\ (last_id = 0 \/ m > last_id)
        /\ parse_event(history[m].content)})

\* discord_channel.history(limit=1): the newest message, 0 if the channel is empty
LastMessage(c) ==
    IF ChannelMessages(c) = {} THEN 0 ELSE Max(ChannelMessages(c))

RECURSIVE AddEvents(_, _)
\* for (message_, event) in events: db.add_event(...); stops at the first
\* insert that raises. failed is the message id of that insert, 0 if none
AddEvents(ev, buf) ==
    IF buf = <<>> THEN [event |-> ev, failed |-> 0]
    ELSE LET r == add_event(ev, Head(buf))
         IN IF r.ok THEN AddEvents(r.event, Tail(buf))
            ELSE [event |-> ev, failed |-> Head(buf)]

\* as IndexChannelStore, if a channel without messages got a cursor as well
IndexChannelStoreAlways(sc, ev, c, buf) ==
    LET last == LastMessage(c)
        r == AddEvents(ev, buf)
    IN [snitch_channel |-> update_last_indexed(sc, c, Max({last, 1})),
        event |-> r.event,
        failed |-> r.failed]

\* the part of index_channel after its last await: cursor, then events
IndexChannelStore(sc, ev, c, buf) ==
    LET last == LastMessage(c)
        r == AddEvents(ev, buf)
    IN [snitch_channel |-> IF last # 0 THEN update_last_indexed(sc, c, last) ELSE sc,
        event |-> r.event,
        failed |-> r.failed]

\* commit: conn.commit() makes every write of the open transaction durable,
\* those an aborted backfill has left in it as well (nothing rolls back)
commit(ab) == {[b EXCEPT !.committed = TRUE] : b \in ab}

\* index_channel, lines 338-349, when the insert of message `failed` raised:
\* the cursor it has written (sc is the table before) and the events it has
\* inserted, newest first, stay in the open transaction
Abort(ab, sc, c, buf, failed) ==
    IF failed = 0 THEN ab
    ELSE ab \cup {[chan |-> c, before |-> sc[c], after |-> LastMessage(c), buf |-> buf,
                   failed |-> failed, committed |-> FALSE]}

----------------------------------------------------------------------------
\* as maybe_index_message, for every registered channel, backfilled or not
maybe_index_messageAnyCursor(sc, ev, m, msg) ==
    LET c == msg.channel
        skip == [snitch_channel |-> sc, event |-> ev, failed |-> 0, indexed |-> FALSE]
    IN IF c \notin DOMAIN sc THEN skip
       ELSE IF ~parse_event(msg.content) THEN skip
       ELSE LET r == add_event(ev, m)
            IN IF ~r.ok
               THEN [snitch_channel |-> sc, event |-> ev, failed |-> m, indexed |-> FALSE]
               ELSE [snitch_channel |-> update_last_indexed(sc, c, m),
                     event |-> r.event, failed |-> 0, indexed |-> TRUE]

\* as maybe_index_message, without the update of the cursor of lines 185-187
maybe_index_messageKeepCursor(sc, ev, m, msg) ==
    LET c == msg.channel
        skip == [snitch_channel |-> sc, event |-> ev, failed |-> 0, indexed |-> FALSE]
    IN IF c \notin DOMAIN sc \/ sc[c] = 0 THEN skip
       ELSE IF ~parse_event(msg.content) THEN skip
       ELSE LET r == add_event(ev, m)
            IN IF ~r.ok
               THEN [snitch_channel |-> sc, event |-> ev, failed |-> m, indexed |-> FALSE]
               ELSE [snitch_channel |-> sc, event |-> r.event, failed |-> 0, indexed |-> TRUE]

(* src/main.py maybe_index_message, up to its await of update_livemap_channel *)
maybe_index_message(sc, ev, m, msg) ==
    LET c == msg.channel
        skip == [snitch_channel |-> sc, event |-> ev, failed |-> 0, indexed |-> FALSE]
    IN IF c \notin DOMAIN sc \/ sc[c] = 0 THEN skip
       ELSE IF ~parse_event(msg.content) THEN skip
       ELSE LET r == add_event(ev, m)
            IN IF ~r.ok
               THEN [snitch_channel |-> sc, event |-> ev, failed |-> m, indexed |-> FALSE]
               ELSE [snitch_channel |-> update_last_indexed(sc, c, m),
                     event |-> r.event, failed |-> 0, indexed |-> TRUE]

\* as AlreadyIndexed, without the check of line 145
AlreadyIndexedUnchecked(sc, c, m) == FALSE

\* on_ready line 145, for a channel that has a cursor: the queued message was
\* captured by the backfill
AlreadyIndexed(sc, c, m) == c \in DOMAIN sc /\ m <= sc[c]

Failure(failed) ==
    IF failed = 0 THEN {} ELSE {[exc |-> "IntegrityError", id |-> failed]}

\* an attribute is read of the None that guild.get_channel returns for the
\* channel c, which is not in the guild (index, line 589; the converter
\* command.channel, src/command.py line 316, for channel_add, line 507, and
\* channel_remove, line 532)
AttributeError(c) == [exc |-> "AttributeError", id |-> c]

\* a request of the history of channel c failed
HTTPException(c) == [exc |-> "HTTPException", id |-> c]

Reinsert(failed) == IF failed = 0 THEN {} ELSE {failed}

----------------------------------------------------------------------------
(* indexing_queue, an asyncio.Queue: put_nowait (line 164), empty (line 124)
   and get (line 125), which does not suspend on a queue that is not empty *)

\* as put_nowait, the message put at the head
put_first(queue, m) == <<m>> \o queue

put_nowait(queue, m) == Append(queue, m)

\* as empty, for a loop that runs once over the messages it found
empty_once(queue) == TRUE

empty(queue) == queue = <<>>

----------------------------------------------------------------------------
\* no command message was handled yet
NotHandled == [content |-> <<>>, invoked |-> <<>>, depth |-> 0]

\* the rows of snitch_channel_allowed_roles after the channels were added
\* with .add-channel for one role each, in the order of the list
Granted(channels) == [i \in DOMAIN channels |-> [channel_id |-> channels[i], role_id |-> 1]]

\* the orders in which channels of the guild can have been registered
Registrations ==
    {s \in UNION {[1..n -> Channels] : n \in 0..NumChannels} :
        \A i, j \in DOMAIN s : i # j => s[i] # s[j]}

\* a handler: where it is, the channels it still has to backfill (as read at
\* its start) and the events index_channel has buffered
Idle == [pc |-> "idle", todo |-> <<>>, buf |-> <<>>]
Crashed == [pc |-> "crashed", todo |-> <<>>, buf |-> <<>>]

IngestStart(rd, gc, registered) ==
    /\ history = <<>>
    /\ readable = rd
    /\ guild_channels = gc
    /\ connected = FALSE
    /\ gateway = <<>>
    /\ snitch_channel = [c \in Range(registered) |-> 0]
    /\ snitch_channel_allowed_roles = Granted(registered)
    /\ event = [m \in MsgIds |-> 0]
    /\ defer_indexing = FALSE
    /\ indexing_queue = <<>>
    /\ indexing_guilds = <<>>
    /\ ready = Idle
    /\ index = [t \in IndexTasks |-> Idle]
    /\ raised = {}
    /\ reinserted = {}
    /\ raced = {}
    /\ late = {}
    /\ command = <<>>
    /\ prefix = default_prefix
    /\ handled = NotHandled
    /\ parsed = NotParsed
    /\ reindexed = FALSE
    /\ invoking = {}
    /\ ready_again = Idle
    /\ aborted = {}

\* the state after on_ready has run to its end on channels without messages
LiveStart(rd, gc, registered) ==
    /\ history = <<>>
    /\ readable = rd
    /\ guild_channels = gc
    /\ connected = TRUE
    /\ gateway = <<>>
    /\ snitch_channel = [c \in Range(registered) |-> 0]
    /\ snitch_channel_allowed_roles = Granted(registered)
    /\ event = [m \in MsgIds |-> 0]
    /\ defer_indexing = FALSE
    /\ indexing_queue = <<>>
    /\ indexing_guilds = <<>>
    /\ ready = Idle
    /\ index = [t \in IndexTasks |-> Idle]
    /\ raised = {}
    /\ reinserted = {}
    /\ raced = {}
    /\ late = {}
    /\ command = <<>>
    /\ prefix = default_prefix
    /\ handled = NotHandled
    /\ parsed = NotParsed
    /\ reindexed = FALSE
    /\ invoking = {}
    /\ ready_again = Idle
    /\ aborted = {}

\* the histories a channel can have when a backfill of it starts
Histories == UNION {[1..n -> Contents] : n \in 0..MaxHistory}

\* a connected bot with no handler running: channel 1 has the messages h and
\* was backfilled up to message cur (0: never), the other registered channels
\* are empty; deferred: on_ready has ended in an exception, which leaves
\* defer_indexing set
Started(h, cur, registered, deferred) ==
    /\ history = [m \in DOMAIN h |-> [channel |-> 1, content |-> h[m]]]
    /\ readable = Channels
    /\ guild_channels = Channels
    /\ connected = TRUE
    /\ gateway = <<>>
    /\ snitch_channel = [c \in Range(registered) |-> IF c = 1 THEN cur ELSE 0]
    /\ snitch_channel_allowed_roles = Granted(registered)
    /\ event = [m \in MsgIds |->
                    IF m \in DOMAIN h /\ m <= cur /\ parse_event(h[m]) THEN 1 ELSE 0]
    /\ defer_indexing = deferred
    /\ indexing_queue = <<>>
    /\ indexing_guilds = <<>>
    /\ ready = IF deferred THEN Crashed ELSE Idle
    /\ index = [t \in IndexTasks |-> Idle]
    /\ raised = {}
    /\ reinserted = {}
    /\ raced = {}
    /\ late = {}
    /\ command = <<>>
    /\ prefix = default_prefix
    /\ handled = NotHandled
    /\ parsed = NotParsed
    /\ reindexed = FALSE
    /\ invoking = {}
    /\ ready_again = Idle
    /\ aborted = {}

BackfillStart(h, cur, registered) == Started(h, cur, registered, FALSE)

\* a connected bot with no handler running: snitch channel 1 has n snitch
\* messages, all of them stored by maybe_index_message
StoredStart(n) == BackfillStart([m \in 1..n |-> "ping"], n, <<1>>)

BackfillInit ==
    \E h \in Histories, cur \in 0..MaxHistory, registered \in Registrations :
        /\ cur <= Len(h)
        /\ 1 \in Range(registered)
        /\ BackfillStart(h, cur, registered)

\* the channels of the guild, and those of them the bot can read
Visible == {v \in [readable : SUBSET Channels, guild_channels : SUBSET Channels] :
                v.readable \subseteq v.guild_channels}

\* every channel is in the guild (on_ready, lines 108-116, skips a channel
\* that is gone as it skips one it cannot read)
IngestInit == \E rd \in SUBSET Channels, registered \in Registrations :
                IngestStart(rd, Channels, registered)

\* registered channels can be gone from the guild
VisibleInit == \E v \in Visible, registered \in Registrations :
                IngestStart(v.readable, v.guild_channels, registered)

\* message m is queued while a drain is suspended in maybe_index_message
Late(m) == IF ready.pc = "notify" \/ ready_again.pc = "notify" THEN {m} ELSE {}

\* the on_message handlers suspended in the command that handler t runs
Invoker(kind, t) == {e \in invoking : e.kind = kind /\ e.t = t}

\* Snitchvis.on_message, src/main.py lines 161-164, for the command messages
\* ms (one at most) whose command has returned, ab being the open
\* transaction: the message is queued while indexing is deferred and handed to
\* maybe_index_message otherwise
Ingested(ms, hist, ab) ==
    IF ms = {}
    THEN /\ UNCHANGED indexedVars
         /\ aborted' = ab
    ELSE LET m == CHOOSE m \in ms : TRUE
         IN  IF defer_indexing
             THEN /\ indexing_queue' = put_nowait(indexing_queue, m)
                  /\ late' = late \cup Late(m)
                  /\ aborted' = ab
                  /\ UNCHANGED <<snitch_channel, event, raised, reinserted>>
             ELSE LET i == maybe_index_message(snitch_channel, event, m, hist[m])
                  IN  /\ snitch_channel' = i.snitch_channel
                      /\ event' = i.event
                      /\ raised' = raised \cup Failure(i.failed)
                      /\ reinserted' = reinserted \cup Reinsert(i.failed)
                      /\ aborted' = IF i.indexed THEN commit(ab) ELSE ab
                      /\ UNCHANGED <<indexing_queue, late>>

\* Snitchvis.on_message, line 160: the command that handler t runs returns,
\* and the handler of its message goes on to lines 161-164
Returns(kind, t, ab) ==
    /\ invoking' = invoking \ Invoker(kind, t)
    /\ Ingested({e.m : e \in Invoker(kind, t)}, history, ab)

\* Snitchvis.on_message, line 160: the command that handler t runs raises,
\* and so does the await of line 160: lines 161-164 are not reached
Raises(kind, t) == invoking' = invoking \ Invoker(kind, t)

\* the command that handler t runs sends a reply, after which it returns
Replies(kind, t) ==
    invoking' = (invoking \ Invoker(kind, t))
                    \cup {[e EXCEPT !.kind = "reply", !.t = 0] : e \in Invoker(kind, t)}

(* A message is posted in channel c. While the bot is not connected it only
   enters the channel's history; afterwards on_message runs for it. *)
Post(limit, c, content) ==
    /\ Len(history) < limit
    /\ gateway = <<>>
    /\ LET m == Len(history) + 1
           msg == [channel |-> c, content |-> content]
       IN /\ history' = Append(history, msg)
          /\ IF ~connected
             THEN UNCHANGED <<snitch_channel, event, indexing_queue, raised, reinserted,
                              aborted, late>>
             ELSE IF defer_indexing
             THEN /\ indexing_queue' = put_nowait(indexing_queue, m)
                  /\ late' = late \cup Late(m)
                  /\ UNCHANGED <<snitch_channel, event, raised, reinserted, aborted>>
             ELSE LET r == maybe_index_message(snitch_channel, event, m, msg)
                  IN /\ snitch_channel' = r.snitch_channel
                     /\ event' = r.event
                     /\ raised' = raised \cup Failure(r.failed)
                     /\ reinserted' = reinserted \cup Reinsert(r.failed)
                     /\ aborted' = IF r.indexed THEN commit(aborted) ELSE aborted
                     /\ UNCHANGED <<indexing_queue, late>>
    /\ UNCHANGED <<readable, guild_channels, connected, defer_indexing, indexing_guilds, ready,
                   index, raced>>
    /\ UNCHANGED <<ready_again, commandVars, snitch_channel_allowed_roles, gateway, now, livemapVars, renderVars>>

PostMessage(c, content) == Post(MaxMsgs, c, content)

(* Commands, src/client.py lines 118-190 and src/main.py lines 1210-1340. A
   command message and a command text are the sequences of their parts: the
   prefix character in front of the first word, the first word, and the
   arguments. *)

\* the built-in commands, which are the methods collected in Client.__init__,
\* lines 30-44
Commands ==
    { [name |-> "render", use_prefix |-> TRUE],
      [name |-> "index", use_prefix |-> TRUE],
      [name |-> "snitchvissetprefix", use_prefix |-> FALSE] }

Builtins == {c.name : c \in Commands}

\* the prefixes of command messages
Prefixes == {default_prefix, "!"}

\* the first words of command messages: built-in names, and names that are
\* no built-in command
Words == {"render", "index", "rhq", "chat"}

\* the names custom commands are given: the name of a built-in command, and
\* another name
Names == {"render", "rhq"}

\* command texts: a first word, with or without arguments
Texts == {<<w>> : w \in Words} \cup {<<w, "-d">> : w \in Words}

\* command messages: a text behind a prefix
CommandContents == {<<p>> \o text : p \in Prefixes, text \in Texts}

\* as the recursion of maybe_handle_command, custom commands considered again
IncludeCustomAgain == TRUE

\* maybe_handle_command, line 160: include_custom=False on the recursion
IncludeCustomOnRecursion == FALSE

\* command_matches, lines 177-190: the content is the name of the command,
\* behind the guild's prefix when the command uses it, or begins with it and
\* a space
command_name(pfx, cmd) == IF cmd.use_prefix THEN <<pfx, cmd.name>> ELSE <<cmd.name>>

command_matches(pfx, cmd, content) ==
    /\ Len(content) >= Len(command_name(pfx, cmd))
    /\ SubSeq(content, 1, Len(command_name(pfx, cmd))) = command_name(pfx, cmd)

\* models.Command, src/models.py lines 98-109: a row of the table command
Custom(name) == [name |-> name, use_prefix |-> TRUE]

\* maybe_handle_command, lines 118-166: the custom commands are tried
\* first, the first command that matches is the only one handled; a built-in
\* command is invoked, a custom one is expanded to its text followed by the
\* arguments and handled by a recursive call
RECURSIVE maybe_handle_command(_, _, _, _, _)
maybe_handle_command(pfx, custom, content, include_custom, depth) ==
    LET customs == {n \in DOMAIN custom : command_matches(pfx, Custom(n), content)}
        builtins == {c \in Commands : command_matches(pfx, c, content)}
    IN  IF depth > MaxDepth
        THEN [invoked |-> <<>>, depth |-> depth]
        ELSE IF include_custom /\ customs # {}
        THEN LET n == CHOOSE n \in customs : TRUE
                 args == SubSeq(content, Len(command_name(pfx, Custom(n))) + 1, Len(content))
             IN  maybe_handle_command(pfx, custom, custom[n] \o args,
                                      IncludeCustomOnRecursion, depth + 1)
        ELSE IF builtins # {}
        THEN LET c == CHOOSE c \in builtins : TRUE
                 args == SubSeq(content, Len(command_name(pfx, c)) + 1, Len(content))
             IN  [invoked |-> <<[name |-> c.name, args |-> args]>>, depth |-> depth]
        ELSE [invoked |-> <<>>, depth |-> depth]

(* create_command, src/main.py lines 1310-1340, with a name and a text: the
   text, with "." in front of it, has to match a built-in command under the
   prefix of the guild; then the custom command is added or updated, and the
   write committed; otherwise the command only replies *)
CreateCommand(name, text) ==
    /\ LET command_text == <<".">> \o text
       IN  IF \E c \in Commands : command_matches(prefix, c, command_text)
           THEN /\ command' = (name :> command_text) @@ command
                /\ aborted' = commit(aborted)
           ELSE UNCHANGED <<command, aborted>>
    /\ UNCHANGED <<history, readable, guild_channels, connected, gateway, snitch_channel,
                   snitch_channel_allowed_roles, event, defer_indexing,
                   indexing_queue, indexing_guilds, ready, index, raised, reinserted,
                   raced, late, prefix, handled, parsed, reindexed, invoking>>
    /\ UNCHANGED <<ready_again, now, livemapVars, renderVars>>

(* set_prefix, src/main.py lines 1219-1226, with the characters of the new
   prefix: a prefix of one character is written to the guild's row, the write
   committed and the cached prefix replaced; otherwise the command only
   replies *)
SetPrefix(new) ==
    /\ IF Len(new) # 1
       THEN UNCHANGED <<prefix, aborted>>
       ELSE /\ prefix' = new[1]
            /\ aborted' = commit(aborted)
    /\ UNCHANGED <<history, readable, guild_channels, connected, gateway, snitch_channel,
                   snitch_channel_allowed_roles, event, defer_indexing,
                   indexing_queue, indexing_guilds, ready, index, raised, reinserted,
                   raced, late, command, handled, parsed, reindexed, invoking>>
    /\ UNCHANGED <<ready_again, now, livemapVars, renderVars>>

(* parse_event, src/main.py lines 351-371, called by maybe_index_message (line
   182) and index_channel (line 328) with a message's text and the guild's
   kira configs *)
ParseEvent(raw_event, kira_configs) ==
    /\ parsed' = [called |-> TRUE, raw_event |-> raw_event, kira_configs |-> kira_configs,
                  result |-> parse_event_configs(raw_event, kira_configs)]
    /\ UNCHANGED <<history, readable, guild_channels, connected, gateway, snitch_channel,
                   snitch_channel_allowed_roles, event, defer_indexing,
                   indexing_queue, indexing_guilds, ready, index, raised, reinserted,
                   raced, late, command, prefix, handled, reindexed, invoking>>
    /\ UNCHANGED <<ready_again, aborted, now, livemapVars, renderVars>>

(* channel_add, src/main.py lines 506-519, with roles of the guild. For a
   channel that is not in the guild the converter returns None and line 507
   raises AttributeError before anything is written; for a registered channel
   the command only replies *)
ChannelAdd(c, roles) ==
    /\ IF c \notin guild_channels
       THEN /\ raised' = raised \cup {AttributeError(c)}
            /\ UNCHANGED <<snitch_channel, snitch_channel_allowed_roles, aborted>>
       ELSE /\ c \notin DOMAIN snitch_channel
            /\ Len(snitch_channel_allowed_roles) + Len(roles) <= MaxRoleRows
            /\ snitch_channel' = (c :> 0) @@ snitch_channel
            /\ snitch_channel_allowed_roles' =
                    RolesAfterAdd(snitch_channel_allowed_roles, c, roles)
            /\ aborted' = commit(aborted)
            /\ UNCHANGED raised
    /\ UNCHANGED <<history, readable, guild_channels, connected, gateway, event, defer_indexing,
                   indexing_queue, indexing_guilds, ready, index, reinserted,
                   raced, late, commandVars>>
    /\ UNCHANGED <<ready_again, now, livemapVars, renderVars>>

(* channel_remove, src/main.py lines 530-535: the rows of the channels of
   the list are deleted one after the other before the reply is awaited,
   registered or not, and every DELETE commits. For a channel that is not in
   the guild the converter returns None and line 532 raises AttributeError:
   the channels listed before it are deleted, the others are not *)
ChannelRemove(channels) ==
    /\ LET gone == {i \in DOMAIN channels : channels[i] \notin guild_channels}
           done == IF gone = {} THEN channels ELSE SubSeq(channels, 1, Min(gone) - 1)
       IN  /\ snitch_channel' =
                    [x \in DOMAIN snitch_channel \ Range(done) |-> snitch_channel[x]]
           /\ snitch_channel_allowed_roles' =
                    RolesAfterRemove(snitch_channel_allowed_roles, done)
           /\ aborted' = IF done = <<>> THEN aborted ELSE commit(aborted)
           /\ raised' = IF gone = {} THEN raised
                         ELSE raised \cup {AttributeError(channels[Min(gone)])}
    /\ UNCHANGED <<history, readable, guild_channels, connected, gateway, event, defer_indexing,
                   indexing_queue, indexing_guilds, ready, index, reinserted,
                   raced, late, commandVars>>
    /\ UNCHANGED <<ready_again, now, livemapVars, renderVars>>

(* A message is posted in channel c and is in the channel's history at once,
   while its MESSAGE_CREATE event has not reached on_message yet. *)
PostUndelivered(c, content) ==
    /\ connected
    /\ Len(history) < MaxMsgs
    /\ history' = Append(history, [channel |-> c, content |-> content])
    /\ gateway' = Append(gateway, Len(history) + 1)
    /\ UNCHANGED <<readable, guild_channels, connected, snitch_channel, event, defer_indexing,
                   indexing_queue, indexing_guilds, ready, index, raised, reinserted,
                   raced, late>>
    /\ UNCHANGED <<ready_again, aborted, commandVars, snitch_channel_allowed_roles, now, livemapVars, renderVars>>

(* on_message, lines 159-164, for the oldest event on its way: events are
   dispatched in the order the gateway sent them *)
Deliver ==
    /\ gateway # <<>>
    /\ gateway' = Tail(gateway)
    /\ LET m == Head(gateway)
       IN  IF defer_indexing
           THEN /\ indexing_queue' = put_nowait(indexing_queue, m)
                /\ late' = late \cup Late(m)
                /\ UNCHANGED <<snitch_channel, event, raised, reinserted, aborted>>
           ELSE LET r == maybe_index_message(snitch_channel, event, m, history[m])
                IN /\ snitch_channel' = r.snitch_channel
                   /\ event' = r.event
                   /\ raised' = raised \cup Failure(r.failed)
                   /\ reinserted' = reinserted \cup Reinsert(r.failed)
                   /\ aborted' = IF r.indexed THEN commit(aborted) ELSE aborted
                   /\ UNCHANGED <<indexing_queue, late>>
    /\ UNCHANGED <<history, readable, guild_channels, connected, defer_indexing, indexing_guilds, ready,
                   index, raced>>
    /\ UNCHANGED <<ready_again, commandVars, snitch_channel_allowed_roles, now, livemapVars, renderVars>>

\* the on_ready invocations: `ready`, and the one that begins while it runs
Invocation(i) == IF i = 1 THEN ready ELSE ready_again

Becomes(i, r) ==
    IF i = 1
    THEN ready' = r /\ UNCHANGED ready_again
    ELSE ready_again' = r /\ UNCHANGED ready

Running(r) == r.pc \notin {"idle", "crashed"}

\* the invocation is suspended in a request: the history of a channel (lines
\* 321 and 336) or the refresh of the livemap (line 193)
Suspended(r) ==
    \/ r.pc \in {"last", "notify"}
    \/ r.pc = "index" /\ \E j \in DOMAIN r.todo : r.todo[j].id \in readable

(* The gateway session is lost while no sweep is running: messages posted
   from now on are not delivered, and the next connection calls on_ready
   again. *)
Disconnect ==
    /\ connected
    /\ ~Running(ready)
    /\ ~Running(ready_again)
    /\ connected' = FALSE
    /\ gateway' = <<>>
    /\ UNCHANGED <<history, readable, guild_channels, snitch_channel, event, defer_indexing,
                   indexing_queue, indexing_guilds, ready, index, raised,
                   reinserted, raced, late>>
    /\ UNCHANGED <<ready_again, aborted, commandVars, snitch_channel_allowed_roles, now, livemapVars, renderVars>>

(* on_ready, lines 100-107; an earlier invocation has returned or raised *)
OnReadyStart ==
    /\ ~connected
    /\ ~Running(ready)
    /\ ~Running(ready_again)
    /\ connected' = TRUE
    /\ defer_indexing' = TRUE
    /\ ready' = [pc |-> "index", todo |-> get_snitch_channels, buf |-> <<>>]
    /\ UNCHANGED <<history, readable, guild_channels, snitch_channel, event, indexing_queue,
                   indexing_guilds, index, raised, reinserted, raced, late>>
    /\ UNCHANGED <<ready_again, aborted, commandVars, snitch_channel_allowed_roles, gateway, now, livemapVars, renderVars>>

(* on_ready, lines 100-107, dispatched once more: the session was replaced
   and discord sent READY again while the earlier invocation is suspended *)
OnReadyAgain ==
    /\ connected
    /\ Suspended(ready)
    /\ ~Running(ready_again)
    /\ defer_indexing' = TRUE
    /\ ready_again' = [pc |-> "index", todo |-> get_snitch_channels, buf |-> <<>>]
    /\ UNCHANGED <<history, readable, guild_channels, connected, snitch_channel, event, indexing_queue,
                   indexing_guilds, ready, index, raised, reinserted, raced, late>>
    /\ UNCHANGED <<aborted, commandVars, snitch_channel_allowed_roles, gateway, now, livemapVars, renderVars>>

(* on_ready, lines 108-116: the channel is gone or cannot be read *)
OnReadySkip(i) ==
    /\ Invocation(i).pc = "index"
    /\ Invocation(i).todo # <<>>
    /\ Head(Invocation(i).todo).id \notin readable
    /\ Becomes(i, [Invocation(i) EXCEPT !.todo = Tail(@)])
    /\ UNCHANGED <<history, readable, guild_channels, connected, snitch_channel, event, defer_indexing,
                   indexing_queue, indexing_guilds, index, raised, reinserted, raced, late>>
    /\ UNCHANGED <<aborted, commandVars, snitch_channel_allowed_roles, gateway, now, livemapVars, renderVars>>

(* on_ready line 117 into index_channel lines 317-336 *)
OnReadyHistory(i) ==
    /\ Invocation(i).pc = "index"
    /\ Invocation(i).todo # <<>>
    /\ Head(Invocation(i).todo).id \in readable
    /\ LET h == Head(Invocation(i).todo)
           buf == BufferedEvents(h.id, h.last_indexed_id)
       IN /\ Becomes(i, [Invocation(i) EXCEPT !.pc = "last", !.buf = buf])
          /\ raced' = raced \cup (Range(buf) \cap Range(indexing_queue))
          /\ UNCHANGED late
    /\ UNCHANGED <<history, readable, guild_channels, connected, snitch_channel, event, defer_indexing,
                   indexing_queue, indexing_guilds, index, raised, reinserted>>
    /\ UNCHANGED <<aborted, commandVars, snitch_channel_allowed_roles, gateway, now, livemapVars, renderVars>>

(* index_channel lines 321 and 336: a request of discord_channel.history
   raises (discord.HTTPException). on_ready has no handler for it: the
   invocation ends at line 117 *)
OnReadyHistoryFails(i) ==
    /\ Invocation(i).pc \in {"index", "last"}
    /\ Invocation(i).todo # <<>>
    /\ Head(Invocation(i).todo).id \in readable
    /\ raised' = raised \cup {HTTPException(Head(Invocation(i).todo).id)}
    /\ Becomes(i, Crashed)
    /\ UNCHANGED <<history, readable, guild_channels, connected, snitch_channel, event, defer_indexing,
                   indexing_queue, indexing_guilds, index, reinserted, raced, late>>
    /\ UNCHANGED <<aborted, commandVars, snitch_channel_allowed_roles, gateway, now, livemapVars, renderVars>>

(* index_channel lines 338-349, back in on_ready *)
OnReadyStore(i) ==
    /\ Invocation(i).pc = "last"
    /\ LET h == Head(Invocation(i).todo)
           r == IndexChannelStore(snitch_channel, event, h.id, Invocation(i).buf)
       IN /\ snitch_channel' = r.snitch_channel
          /\ event' = r.event
          /\ raised' = raised \cup Failure(r.failed)
          /\ reinserted' = reinserted \cup Reinsert(r.failed)
          /\ aborted' = Abort(aborted, snitch_channel, h.id, Invocation(i).buf, r.failed)
          /\ Becomes(i, IF r.failed # 0
                        THEN Crashed
                        ELSE [pc |-> "index", todo |-> Tail(Invocation(i).todo),
                              buf |-> <<>>])
    /\ UNCHANGED <<history, readable, guild_channels, connected, defer_indexing, indexing_queue,
                   indexing_guilds, index, raced, late>>
    /\ UNCHANGED <<commandVars, snitch_channel_allowed_roles, gateway, now, livemapVars, renderVars>>

(* on_ready line 118: every channel is done *)
OnReadyCommit(i) ==
    /\ Invocation(i).pc = "index"
    /\ Invocation(i).todo = <<>>
    /\ Becomes(i, [Invocation(i) EXCEPT !.pc = "drain"])
    /\ aborted' = commit(aborted)
    /\ UNCHANGED <<history, readable, guild_channels, connected, snitch_channel, event, defer_indexing,
                   indexing_queue, indexing_guilds, index, raised, reinserted, raced, late>>
    /\ UNCHANGED <<commandVars, snitch_channel_allowed_roles, gateway, now, livemapVars, renderVars>>

(* on_ready lines 124 and 152: the queue is empty *)
OnReadyFinish(i) ==
    /\ Invocation(i).pc = "drain"
    /\ empty(indexing_queue)
    /\ defer_indexing' = FALSE
    /\ Becomes(i, Idle)
    /\ UNCHANGED <<history, readable, guild_channels, connected, snitch_channel, event, indexing_queue,
                   indexing_guilds, index, raised, reinserted, raced, late>>
    /\ UNCHANGED <<aborted, commandVars, snitch_channel_allowed_roles, gateway, now, livemapVars, renderVars>>

\* index, lines 564-584, in handler t: without snitch channels, or while
\* the guild is being indexed, the command replies and returns
Indexing(t) ==
    LET channels == get_snitch_channels
    IN  [index EXCEPT ![t] =
            IF channels = <<>> THEN Idle
            ELSE IF TheGuild \in Range(indexing_guilds) THEN Idle
            ELSE [pc |-> "announce", todo |-> channels, buf |-> <<>>]]

(* index, lines 564-584 *)
IndexCheck(t) ==
    /\ connected
    /\ index[t].pc = "idle"
    /\ index' = Indexing(t)
    /\ UNCHANGED <<history, readable, guild_channels, connected, snitch_channel, event, defer_indexing,
                   indexing_queue, indexing_guilds, ready, raised, reinserted, raced, late>>
    /\ UNCHANGED <<ready_again, aborted, commandVars, snitch_channel_allowed_roles, gateway, now, livemapVars, renderVars>>

(* full_reindex, lines 631-648, with -y, from the return of its first reply:
   the events of the guild are deleted and its cursors reset, both committed,
   then index runs up to its first suspension, lines 564-584 *)
FullReindex(t) ==
    /\ connected
    /\ ~reindexed
    /\ index[t].pc = "idle"
    /\ reindexed' = TRUE
    /\ event' = [m \in MsgIds |-> 0]
    /\ snitch_channel' = [c \in DOMAIN snitch_channel |-> 0]
    /\ aborted' = commit(aborted)
    /\ LET rows == get_snitch_channels
           channels == [i \in DOMAIN rows |-> [rows[i] EXCEPT !.last_indexed_id = 0]]
       IN index' = [index EXCEPT ![t] =
            IF channels = <<>> THEN Idle
            ELSE IF TheGuild \in Range(indexing_guilds) THEN Idle
            ELSE [pc |-> "announce", todo |-> channels, buf |-> <<>>]]
    /\ UNCHANGED <<history, readable, guild_channels, connected, defer_indexing, indexing_queue,
                   indexing_guilds, ready, raised, reinserted, raced, late>>
    /\ UNCHANGED <<ready_again, command, prefix, handled, parsed, invoking, snitch_channel_allowed_roles,
                   gateway, now, livemapVars, renderVars>>

(* index, lines 586-598: the loop ends at the first channel it cannot read.
   For a channel that is no longer in the guild to_discord returns None and
   line 589 raises AttributeError; for one without read_messages the command
   replies and returns *)
IndexBegin(t) ==
    /\ index[t].pc = "announce"
    /\ LET todo == index[t].todo
           unread == {i \in DOMAIN todo : todo[i].id \notin readable}
       IN IF unread = {}
          THEN /\ indexing_guilds' = Append(indexing_guilds, TheGuild)
               /\ index' = [index EXCEPT ![t].pc = "send"]
               /\ UNCHANGED <<raised, invoking>>
          ELSE /\ index' = [index EXCEPT ![t] = Idle]
               /\ IF todo[Min(unread)].id \in guild_channels
                  THEN /\ Replies("index", t)
                       /\ UNCHANGED raised
                  ELSE /\ Raises("index", t)
                       /\ raised' = raised \cup {AttributeError(todo[Min(unread)].id)}
               /\ UNCHANGED indexing_guilds
    /\ UNCHANGED <<history, readable, guild_channels, connected, snitch_channel, event, defer_indexing,
                   indexing_queue, ready, reinserted, raced, late>>
    /\ UNCHANGED <<ready_again, aborted, commandKept, snitch_channel_allowed_roles, gateway, now, livemapVars, renderVars>>

(* index lines 600-603 into index_channel lines 317-336 *)
IndexHistory(t) ==
    /\ index[t].pc = "send"
    /\ index[t].todo # <<>>
    /\ LET h == Head(index[t].todo)
       IN index' = [index EXCEPT ![t].pc = "last",
                                 ![t].buf = BufferedEvents(h.id, h.last_indexed_id)]
    /\ UNCHANGED <<history, readable, guild_channels, connected, snitch_channel, event, defer_indexing,
                   indexing_queue, indexing_guilds, ready, raised, reinserted, raced, late>>
    /\ UNCHANGED <<ready_again, aborted, commandVars, snitch_channel_allowed_roles, gateway, now, livemapVars, renderVars>>

(* index_channel lines 338-349, then index lines 604-607; an exception
   leaves through the finally of line 616 *)
IndexStore(t) ==
    /\ index[t].pc = "last"
    /\ LET h == Head(index[t].todo)
           r == IndexChannelStore(snitch_channel, event, h.id, index[t].buf)
       IN /\ snitch_channel' = r.snitch_channel
          /\ event' = r.event
          /\ raised' = raised \cup Failure(r.failed)
          /\ reinserted' = reinserted \cup Reinsert(r.failed)
          /\ IF r.failed # 0
             THEN /\ index' = [index EXCEPT ![t] = Idle]
                  /\ indexing_guilds' = ListRemove(indexing_guilds, TheGuild)
                  /\ aborted' = Abort(aborted, snitch_channel, h.id, index[t].buf, r.failed)
                  /\ Raises("index", t)
             ELSE /\ index' = [index EXCEPT ![t] =
                        [pc |-> "send", todo |-> Tail(index[t].todo), buf |-> <<>>]]
                  /\ aborted' = commit(aborted)
                  /\ UNCHANGED <<indexing_guilds, invoking>>
    /\ UNCHANGED <<history, readable, guild_channels, connected, defer_indexing, indexing_queue, ready, raced, late>>
    /\ UNCHANGED <<ready_again, commandKept, snitch_channel_allowed_roles, gateway, now, livemapVars, renderVars>>

\* as IndexChannelFailed, if the events buffered so far were saved
IndexChannelFailedSaving(sc, ev, c, buf) ==
    [snitch_channel |-> sc, event |-> AddEvents(ev, buf).event]

\* index_channel, lines 321-336, when a history request raises: the lines
\* 338-349 that write the cursor and the events are not reached
IndexChannelFailed(sc, ev, c, buf) == [snitch_channel |-> sc, event |-> ev]

(* index_channel lines 321 and 336 in index, line 603: a request of
   discord_channel.history raises (discord.HTTPException), while paging or
   for the last message; the exception leaves through the finally of line 616 *)
IndexHistoryFails(t) ==
    /\ index[t].pc \in {"send", "last"}
    /\ index[t].todo # <<>>
    /\ LET h == Head(index[t].todo)
           r == IndexChannelFailed(snitch_channel, event, h.id, index[t].buf)
       IN /\ snitch_channel' = r.snitch_channel
          /\ event' = r.event
          /\ raised' = raised \cup {HTTPException(h.id)}
    /\ indexing_guilds' = ListRemove(indexing_guilds, TheGuild)
    /\ index' = [index EXCEPT ![t] = Idle]
    /\ Raises("index", t)
    /\ UNCHANGED <<history, readable, guild_channels, connected, defer_indexing, indexing_queue, ready,
                   reinserted, raced, late>>
    /\ UNCHANGED <<ready_again, aborted, commandKept, snitch_channel_allowed_roles, gateway, now, livemapVars, renderVars>>

(* index lines 609-616: the last send has returned, and so does the
   command; when a message has invoked it, its on_message goes on (lines
   160-164) *)
IndexFinish(t) ==
    /\ index[t].pc = "send"
    /\ index[t].todo = <<>>
    /\ indexing_guilds' = ListRemove(indexing_guilds, TheGuild)
    /\ index' = [index EXCEPT ![t] = Idle]
    /\ Returns("index", t, aborted)
    /\ UNCHANGED <<history, readable, guild_channels, connected, defer_indexing, ready, raced>>
    /\ UNCHANGED <<ready_again, commandKept, snitch_channel_allowed_roles, gateway, now, livemapVars, renderVars>>

----------------------------------------------------------------------------
(* The livemap refresh scheduler, src/main.py lines 195-270 and 1242-1255.
   The guild has one livemap_channel row; _update_livemap is the render and
   upload, which a task starts, suspends in, and later finishes or fails. *)

\* dicts that keep insertion order, as Python's do: <<[key, val], ...>>
DictHas(d, k) == \E i \in DOMAIN d : d[i].key = k

DictGet(d, k) == d[CHOOSE i \in DOMAIN d : d[i].key = k].val

DictSet(d, k, v) ==
    IF DictHas(d, k)
    THEN [i \in DOMAIN d |-> IF d[i].key = k THEN [key |-> k, val |-> v] ELSE d[i]]
    ELSE Append(d, [key |-> k, val |-> v])

\* as RefreshAt, the timestamp after FirstRefresh seconds appended last
RefreshAtMinutesFirst(t) ==
    [i \in 1..RefreshCount |-> t + i * RefreshSpacing] \o <<t + FirstRefresh>>

\* update_livemap_channel, lines 225-233: the timestamps of one notification
RefreshAt(t) ==
    <<t + FirstRefresh>> \o [i \in 1..RefreshCount |-> t + i * RefreshSpacing]

\* update_livemap_channel, line 235: the schedule of the channel is replaced
Schedule(d, c, t) == DictSet(d, c, RefreshAt(t))

\* as Debounced, with a window of half the length
DebouncedHalf(up, c, t) == c \in DOMAIN up /\ up[c] > t - Debounce \div 2

\* update_livemap_channel, lines 237-242
Debounced(up, c, t) == c \in DOMAIN up /\ up[c] > t - Debounce

\* update_livemap without the membership test
update_livemapUnguarded(upd, c) == [updating |-> Append(upd, c), started |-> TRUE]

\* update_livemap, lines 251-253: up to the await of _update_livemap
update_livemap(upd, c) ==
    IF c \in Range(upd)
    THEN [updating |-> upd, started |-> FALSE]
    ELSE [updating |-> Append(upd, c), started |-> TRUE]

\* the channel is released only when _update_livemap returns
ReleasedOnReturn(upd, c, ok) == IF ok THEN ListRemove(upd, c) ELSE upd

\* update_livemap, lines 255-270: the finally, whether _update_livemap
\* returned (ok) or raised
Released(upd, c, ok) == ListRemove(upd, c)

\* update_livemap_channel, lines 220-245, up to its first suspension: started
\* tells that the caller is now suspended in _update_livemap
update_livemap_channel(d, up, upd, c, refresh, t) ==
    LET d1 == IF refresh THEN Schedule(d, c, t) ELSE d
        r  == update_livemap(upd, c)
    IN  IF Debounced(up, c, t)
        THEN [refresh_at |-> d1, last_uploaded |-> up, updating |-> upd, started |-> FALSE]
        ELSE IF r.started
        THEN [refresh_at |-> d1, last_uploaded |-> up, updating |-> r.updating,
              started |-> TRUE]
        ELSE [refresh_at |-> d1, last_uploaded |-> (c :> t) @@ up, updating |-> upd,
              started |-> FALSE]

\* only the earliest due timestamp is dropped
FutureDtsOneByOne(refresh_at, tnow) ==
    IF refresh_at # <<>> /\ ~(tnow < Head(refresh_at)) THEN Tail(refresh_at) ELSE refresh_at

\* check_outdated_livemaps, line 203
FutureDts(refresh_at, tnow) == SelectSeq(refresh_at, LAMBDA dt : tnow < dt)

\* check_outdated_livemaps, line 214: refresh=False
SweepRefresh == FALSE

\* check_outdated_livemaps, lines 199-214: the for loop over the copied items,
\* run until update_livemap_channel suspends (chan is that channel) or the
\* items are used up (chan = 0). tnow is the tick's `now`, t the clock; calls
\* lists the calls of update_livemap_channel (line 214) with the number of
\* timestamps that were due.
RECURSIVE SweepItems(_, _, _, _, _, _, _)
SweepItems(items, d, up, upd, row, tnow, t) ==
    IF items = <<>>
    THEN [refresh_at |-> d, last_uploaded |-> up, updating |-> upd,
          items |-> <<>>, chan |-> 0, calls |-> <<>>]
    ELSE LET c      == Head(items).key
             future == FutureDts(Head(items).val, tnow)
             d1     == DictSet(d, c, future)
             r      == update_livemap_channel(d1, up, upd, c, SweepRefresh, t)
             call   == [chan |-> c, due |-> Len(Head(items).val) - Len(future)]
         IN  IF future = Head(items).val
             THEN SweepItems(Tail(items), d, up, upd, row, tnow, t)
             ELSE IF row # c
             THEN SweepItems(Tail(items), d1, up, upd, row, tnow, t)
             ELSE IF r.started
             THEN [refresh_at |-> r.refresh_at, last_uploaded |-> up, updating |-> r.updating,
                   items |-> Tail(items), chan |-> c, calls |-> <<call>>]
             ELSE [SweepItems(Tail(items), r.refresh_at, r.last_uploaded, upd, row, tnow, t)
                        EXCEPT !.calls = <<call>> \o @]

\* the number of tasks suspended in _update_livemap for channel c
InFlight(c) ==
    Cardinality({k \in Callers : caller[k].pc = "render" /\ caller[k].chan = c})
    + (IF sweep.pc = "render" /\ sweep.chan = c THEN 1 ELSE 0)

\* how often c occurs in the list
Occurrences(list, c) == Cardinality({i \in DOMAIN list : list[i] = c})

CallerIdle == [pc |-> "idle", kind |-> "none", chan |-> 0, started |-> 0]

\* a message or command is handled by the first free handler
FirstFree(k) == caller[k].pc = "idle" /\ \A j \in Callers : j < k => caller[j].pc # "idle"

\* calls tells what the last run of the loop body did, err that the last
\* refresh the loop has awaited raised
SweepAsleep(next) ==
    [pc |-> "sleep", now |-> 0, items |-> <<>>, chan |-> 0, started |-> 0, next |-> next,
     calls |-> <<>>, err |-> FALSE]

Unnotified == [inflight |-> 0, over |-> FALSE, started |-> 0]

\* __init__, lines 64-70, with the row and the configuration found at startup
LivemapStart(row, log) ==
    /\ livemap_channel = row
    /\ error_log_channel = log
    /\ livemap_last_uploaded = [c \in {} |-> 0]
    /\ livemaps_refresh_at = <<>>
    /\ livemap_updating_channels = <<>>
    /\ caller = [k \in Callers |-> CallerIdle]
    /\ sweep = SweepAsleep(0)
    /\ since = [c \in LChannels |-> Unnotified]
    /\ arrived = [notify |-> 0, set |-> 0]

\* the time of the notification that leaves n due timestamps at time 0
NotifiedAt(n) ==
    IF n = 0 THEN -(FirstRefresh \div 2)
    ELSE IF n = 1 THEN -FirstRefresh
    ELSE -((n - 1) * RefreshSpacing)

\* maybe_index_message, lines 186-193: the notifications handled before time
\* 0, oldest first, each for the channel that was the guild's livemap channel
\* when its snitch message was stored, and due tells how many of its
\* timestamps are due at time 0. Between two notifications for different
\* channels set_livemap_channel has changed the guild's row. A key of
\* livemaps_refresh_at keeps the position of its first notification, so a
\* schedule whose first key was notified last has three notifications behind
\* it; the first of the three has left its key only, line 235 having replaced
\* its timestamps, and is taken to be as old as the second
Notifications ==
    LET one == [chan : LChannels, due : 0..MaxDue]
    IN  {<<>>}
        \cup {<<x>> : x \in one}
        \cup {ns \in {<<x, y>> : x \in one, y \in one} :
                /\ ns[1].chan # ns[2].chan
                /\ ns[1].due >= ns[2].due}
        \cup {ns \in {<<x, y, z>> : x \in one, y \in one, z \in one} :
                /\ ns[1].chan = ns[3].chan
                /\ ns[1].chan # ns[2].chan
                /\ ns[1].due = ns[2].due
                /\ ns[2].due >= ns[3].due}

\* update_livemap_channel, line 235, once for every notification of the list
RECURSIVE Scheduled(_)
Scheduled(ns) ==
    IF ns = <<>> THEN <<>>
    ELSE Schedule(Scheduled(SubSeq(ns, 1, Len(ns) - 1)),
                  ns[Len(ns)].chan, NotifiedAt(ns[Len(ns)].due))

\* the moment the refresh loop is started, on_ready lines 156-157, with what
\* the live handlers have left in the dicts before: the loop does not run
\* before the first on_ready has come to its end, nor after it has ended on an
\* error (lines 215-218) until the on_ready of a reconnect starts it again.
\* Every notification has scheduled its timestamps; the upload of a
\* notification may have been recorded a moment ago (line 245), of the others
\* it was recorded long ago or it raised; no refresh is running. The guild's
\* row, once written, is only ever changed to name another channel
OutdatedInit(ns) ==
    \E row \in 0..NumLivemaps, log \in BOOLEAN :
      \E recent \in SUBSET {ns[i].chan : i \in DOMAIN ns} :
        /\ row = 0 => ns = <<>>
        /\ livemap_channel = row
        /\ error_log_channel = log
        /\ livemap_last_uploaded = [c \in recent |-> -1]
        /\ livemaps_refresh_at = Scheduled(ns)
        /\ livemap_updating_channels = <<>>
        /\ caller = [k \in Callers |-> CallerIdle]
        /\ sweep = SweepAsleep(0)
        /\ since = [c \in LChannels |-> Unnotified]
        /\ arrived = [notify |-> 0, set |-> 0]

\* the last k timestamps of a notification, the first of them due at time 0
Remaining(k) ==
    SubSeq(RefreshAt(-((RefreshCount + 1 - k) * RefreshSpacing)),
           RefreshCount + 2 - k, RefreshCount + 1)

\* the refresh loop long after the last notification: the schedule of one
\* channel has its last timestamps left, and the last upload of the guild's
\* livemap channel may have ended a moment ago
QuiesceInit ==
    \E row \in LChannels, log \in BOOLEAN, c \in LChannels, k \in 1..MaxLeft,
       recent \in BOOLEAN :
        /\ livemap_channel = row
        /\ error_log_channel = log
        /\ livemap_last_uploaded = IF recent THEN (c :> -1) ELSE [e \in {} |-> 0]
        /\ livemaps_refresh_at = <<[key |-> c, val |-> Remaining(k)]>>
        /\ livemap_updating_channels = <<>>
        /\ caller = [j \in Callers |-> CallerIdle]
        /\ sweep = SweepAsleep(0)
        /\ since = [e \in LChannels |-> Unnotified]
        /\ arrived = [notify |-> 0, set |-> 0]

LivemapInit == \E row \in 0..NumLivemaps, log \in BOOLEAN : LivemapStart(row, log)

\* what a notification of channel c records: whether it arrived during a
\* refresh, and that no refresh was started after it yet
Notified(s, inflight, started) ==
    [inflight |-> IF ~inflight THEN 0
                  ELSE IF s.over THEN 1 ELSE Min({s.inflight + 1, 2}),
     over     |-> FALSE,
     started  |-> IF started THEN 1 ELSE 0]

\* maybe_index_message, line 193: update_livemap_channel up to its suspension
Notification(k) ==
    LET c == livemap_channel
        r == update_livemap_channel(livemaps_refresh_at, livemap_last_uploaded,
                 livemap_updating_channels, c, TRUE, now)
    IN  /\ arrived' = [arrived EXCEPT !.notify = @ + 1]
        /\ livemaps_refresh_at' = r.refresh_at
        /\ livemap_last_uploaded' = r.last_uploaded
        /\ livemap_updating_channels' = r.updating
        /\ caller' = IF r.started
                     THEN [caller EXCEPT ![k] = [pc |-> "render", kind |-> "notify",
                                                 chan |-> c, started |-> now]]
                     ELSE caller
        /\ since' = [since EXCEPT ![c] =
                         Notified(@, c \in Range(livemap_updating_channels), r.started)]

\* on_message, lines 159-164, and maybe_index_message, lines 166-193, with
\* update_livemap_channel up to its suspension, for a snitch message posted in
\* a backfilled snitch channel of a guild that has a livemap channel: handler
\* k stores the event, moves the cursor, commits and notifies the livemap
Notify(k) ==
    /\ now <= QuietAfter
    /\ arrived.notify < MaxNotifies
    /\ FirstFree(k)
    /\ connected
    /\ ~defer_indexing
    /\ livemap_channel # 0
    /\ \E c \in Channels, content \in Contents :
         LET m == Len(history) + 1
             msg == [channel |-> c, content |-> content]
             r == maybe_index_message(snitch_channel, event, m, msg)
         IN  /\ m \in MsgIds
             /\ r.indexed
             /\ history' = Append(history, msg)
             /\ snitch_channel' = r.snitch_channel
             /\ event' = r.event
             /\ aborted' = commit(aborted)
    /\ Notification(k)
    /\ UNCHANGED <<now, livemap_channel, error_log_channel, sweep>>
    /\ UNCHANGED <<readable, guild_channels, connected, gateway, defer_indexing,
                   indexing_queue, indexing_guilds, ready, index, raised, reinserted,
                   raced, late>>
    /\ UNCHANGED <<ready_again, commandVars, snitch_channel_allowed_roles, renderVars>>

\* set_livemap_channel, lines 1242-1252: the row is written and committed
\* (db.set_livemap_channel goes through db.execute), the reply awaited
SetLivemapChannel(k, c) ==
    /\ now <= QuietAfter
    /\ arrived.set < MaxSets
    /\ arrived' = [arrived EXCEPT !.set = @ + 1]
    /\ FirstFree(k)
    /\ livemap_channel' = c
    /\ aborted' = commit(aborted)
    /\ caller' = [caller EXCEPT ![k] = [pc |-> "sent", kind |-> "set", chan |-> c,
                                        started |-> now]]
    /\ UNCHANGED <<now, error_log_channel, livemap_last_uploaded, livemaps_refresh_at,
                   livemap_updating_channels, sweep, since>>
    /\ UNCHANGED <<ingestKept, renderVars>>

\* set_livemap_channel, lines 1254-1255: the row is read back (None when the
\* guild's row names another channel by now) and update_livemap is called
SetRefresh(k) ==
    /\ caller[k].pc = "sent"
    /\ LET c == caller[k].chan
           r == update_livemap(livemap_updating_channels, c)
       IN  IF livemap_channel # c
           THEN /\ caller' = [caller EXCEPT ![k] = CallerIdle]
                /\ UNCHANGED livemap_updating_channels
           ELSE /\ livemap_updating_channels' = r.updating
                /\ caller' = [caller EXCEPT ![k] =
                                IF r.started THEN [@ EXCEPT !.pc = "render", !.started = now]
                                ELSE CallerIdle]
    /\ UNCHANGED <<now, livemap_channel, error_log_channel, livemap_last_uploaded,
                   livemaps_refresh_at, sweep, since, arrived>>
    /\ UNCHANGED <<ingestVars, renderVars>>

\* update_livemap, lines 256-270, and update_livemap_channel, line 245:
\* _update_livemap of handler k returns (ok) or raises
CallerDone(k, ok) ==
    /\ caller[k].pc = "render"
    /\ LET c == caller[k].chan
       IN  /\ livemap_updating_channels' = Released(livemap_updating_channels, c, ok)
           /\ livemap_last_uploaded' =
                IF ok /\ caller[k].kind = "notify"
                THEN (c :> now) @@ livemap_last_uploaded
                ELSE livemap_last_uploaded
           /\ since' = [since EXCEPT ![c].over = TRUE]
    /\ caller' = [caller EXCEPT ![k] = CallerIdle]
    /\ UNCHANGED <<now, livemap_channel, error_log_channel, livemaps_refresh_at, sweep,
                   arrived>>
    /\ UNCHANGED <<ingestVars, renderVars>>

\* on_message, lines 159-164, and the whole of maybe_index_message, lines
\* 166-193, up to its suspension: handler k gets a message posted in channel c
OnMessage(k, c, content) ==
    /\ connected
    /\ ~defer_indexing
    /\ gateway = <<>>
    /\ Len(history) < MaxMsgs
    /\ FirstFree(k)
    /\ LET m == Len(history) + 1
           msg == [channel |-> c, content |-> content]
           r == maybe_index_message(snitch_channel, event, m, msg)
       IN  /\ history' = Append(history, msg)
           /\ snitch_channel' = r.snitch_channel
           /\ event' = r.event
           /\ raised' = raised \cup Failure(r.failed)
           /\ reinserted' = reinserted \cup Reinsert(r.failed)
           /\ aborted' = IF r.indexed THEN commit(aborted) ELSE aborted
           /\ IF r.indexed /\ livemap_channel # 0
              THEN Notification(k)
              ELSE UNCHANGED <<arrived, livemaps_refresh_at, livemap_last_uploaded,
                               livemap_updating_channels, caller, since>>
    /\ UNCHANGED <<readable, guild_channels, connected, gateway, defer_indexing, indexing_queue,
                   indexing_guilds, ready, index, raced, late>>
    /\ UNCHANGED <<ready_again, commandVars, snitch_channel_allowed_roles, now,
                   livemap_channel, error_log_channel, sweep, renderVars>>

(* on_ready lines 124-148: one turn of the drain loop, up to the next turn or
   to the suspension of maybe_index_message in update_livemap_channel (line
   193), which handler k stands for *)
OnReadyDrain(i, k) ==
    /\ Invocation(i).pc = "drain"
    /\ ~empty(indexing_queue)
    /\ FirstFree(k)
    /\ LET m == Head(indexing_queue)
           c == history[m].channel
           r == maybe_index_message(snitch_channel, event, m, history[m])
           u == update_livemap_channel(livemaps_refresh_at, livemap_last_uploaded,
                    livemap_updating_channels, livemap_channel, TRUE, now)
       IN /\ indexing_queue' = Tail(indexing_queue)
          /\ IF c \in DOMAIN snitch_channel /\ snitch_channel[c] = 0
             THEN \* message.id <= None
                  /\ raised' = raised \cup {[exc |-> "TypeError", id |-> m]}
                  /\ Becomes(i, Crashed)
                  /\ UNCHANGED <<snitch_channel, event, reinserted, aborted>>
                  /\ UNCHANGED <<arrived, livemaps_refresh_at, livemap_last_uploaded,
                                 livemap_updating_channels, caller, since>>
             ELSE IF AlreadyIndexed(snitch_channel, c, m)
             THEN /\ UNCHANGED <<snitch_channel, event, raised, reinserted, ready,
                                 ready_again, aborted>>
                  /\ UNCHANGED <<arrived, livemaps_refresh_at, livemap_last_uploaded,
                                 livemap_updating_channels, caller, since>>
             ELSE /\ snitch_channel' = r.snitch_channel
                  /\ event' = r.event
                  /\ raised' = raised \cup Failure(r.failed)
                  /\ reinserted' = reinserted \cup Reinsert(r.failed)
                  /\ aborted' = IF r.indexed THEN commit(aborted) ELSE aborted
                  /\ Becomes(i, IF r.failed # 0 THEN Crashed
                                ELSE IF r.indexed /\ livemap_channel # 0 /\ u.started
                                THEN [Invocation(i) EXCEPT !.pc = "notify"]
                                ELSE Invocation(i))
                  /\ IF r.indexed /\ livemap_channel # 0
                     THEN Notification(k)
                     ELSE UNCHANGED <<arrived, livemaps_refresh_at, livemap_last_uploaded,
                                      livemap_updating_channels, caller, since>>
    /\ UNCHANGED <<history, readable, guild_channels, connected, defer_indexing, indexing_guilds, index, raced, late>>
    /\ UNCHANGED <<commandVars, snitch_channel_allowed_roles, gateway, now, livemap_channel,
                   error_log_channel, sweep, renderVars>>

(* update_livemap lines 256-270 and update_livemap_channel line 245, then
   maybe_index_message and the drain loop, line 124: the refresh the drain is
   suspended in returns (ok) or raises, and on_ready has no handler for it *)
OnReadyResume(i, k, ok) ==
    /\ Invocation(i).pc = "notify"
    /\ caller[k].pc = "render"
    /\ caller[k].kind = "notify"
    /\ LET c == caller[k].chan
       IN  /\ livemap_updating_channels' = Released(livemap_updating_channels, c, ok)
           /\ livemap_last_uploaded' =
                IF ok THEN (c :> now) @@ livemap_last_uploaded ELSE livemap_last_uploaded
           /\ since' = [since EXCEPT ![c].over = TRUE]
    /\ caller' = [caller EXCEPT ![k] = CallerIdle]
    /\ Becomes(i, IF ok THEN [Invocation(i) EXCEPT !.pc = "drain"] ELSE Crashed)
    /\ UNCHANGED <<history, readable, guild_channels, connected, snitch_channel, event, defer_indexing,
                   indexing_queue, indexing_guilds, index, raised, reinserted, raced, late>>
    /\ UNCHANGED <<aborted, commandVars, snitch_channel_allowed_roles, gateway, now, livemap_channel,
                   error_log_channel, livemaps_refresh_at, sweep, arrived, renderVars>>

\* the sweep after its for loop ran up to r, calls being those of the run
SweepAfter(r, tnow, next, calls, err) ==
    IF r.chan = 0
    THEN [SweepAsleep(next) EXCEPT !.calls = calls, !.err = err]
    ELSE [pc |-> "render", now |-> tnow, items |-> r.items, chan |-> r.chan,
          started |-> now, next |-> next, calls |-> calls, err |-> err]

SweepEffects(r) ==
    /\ livemaps_refresh_at' = r.refresh_at
    /\ livemap_last_uploaded' = r.last_uploaded
    /\ livemap_updating_channels' = r.updating
    /\ since' = IF r.chan = 0 THEN since
                ELSE [since EXCEPT ![r.chan].started = @ + 1]

\* check_outdated_livemaps, lines 195-214: a tick of the loop begins
SweepStart ==
    /\ sweep.pc = "sleep"
    /\ now >= sweep.next
    /\ LET r == SweepItems(livemaps_refresh_at, livemaps_refresh_at,
                    livemap_last_uploaded, livemap_updating_channels,
                    livemap_channel, now, now)
       IN  /\ SweepEffects(r)
           /\ sweep' = SweepAfter(r, now, now + SweepPeriod, r.calls, sweep.err)
    /\ UNCHANGED <<now, livemap_channel, error_log_channel, caller, arrived>>
    /\ UNCHANGED <<ingestVars, renderVars>>

\* check_outdated_livemaps, lines 214-218: the refresh the tick awaits returns
\* and the loop goes on, or it raises and the error is sent to the error log
SweepDone(ok) ==
    /\ sweep.pc = "render"
    /\ LET c   == sweep.chan
           upd == Released(livemap_updating_channels, c, ok)
           r   == SweepItems(sweep.items, livemaps_refresh_at,
                      (c :> now) @@ livemap_last_uploaded, upd,
                      livemap_channel, sweep.now, now)
       IN  IF ok
           THEN /\ livemaps_refresh_at' = r.refresh_at
                /\ livemap_last_uploaded' = r.last_uploaded
                /\ livemap_updating_channels' = r.updating
                /\ since' = IF r.chan = c
                            THEN [since EXCEPT ![c].over = TRUE, ![c].started = @ + 1]
                            ELSE IF r.chan = 0
                            THEN [since EXCEPT ![c].over = TRUE]
                            ELSE [since EXCEPT ![c].over = TRUE,
                                               ![r.chan].started = @ + 1]
                /\ sweep' = SweepAfter(r, sweep.now, sweep.next, sweep.calls \o r.calls,
                                            FALSE)
           ELSE /\ livemap_updating_channels' = upd
                /\ since' = [since EXCEPT ![c].over = TRUE]
                /\ sweep' = [SweepAsleep(sweep.next) EXCEPT
                                !.calls = sweep.calls, !.err = TRUE,
                                !.pc = IF error_log_channel THEN "sleep" ELSE "stopped"]
                /\ UNCHANGED <<livemaps_refresh_at, livemap_last_uploaded>>
    /\ UNCHANGED <<now, livemap_channel, error_log_channel, caller, arrived>>
    /\ UNCHANGED <<ingestVars, renderVars>>

\* time passes: the loop starts its tick when it is due, a reply is sent and
\* a render ends within the step they are due in
Advance(limit) ==
    /\ now + TimeStep <= limit
    /\ ~(sweep.pc = "sleep" /\ now >= sweep.next)
    /\ ~(sweep.pc = "render" /\ now - sweep.started >= MaxRenderTime)
    /\ \A k \in Callers :
            /\ caller[k].pc # "sent"
            /\ ~(caller[k].pc = "render" /\ now - caller[k].started >= MaxRenderTime)
    /\ now' = now + TimeStep
    /\ UNCHANGED livemapVars
    /\ UNCHANGED <<ingestVars, renderVars>>

Tick == Advance(MaxTime)

\* the clock runs until two ticks after the last of MaxLeft timestamps
QuiesceTick == Advance((MaxLeft - 1) * RefreshSpacing + 2 * SweepPeriod)

(* Render admission, src/main.py lines 742-982. Python integers are unbounded
   and the pixel ceilings exceed 2^31, so pixel counts are kept as digit
   groups of three decimals, least significant first. *)

Groups == 1..6

RECURSIVE Group(_, _)
Group(n, i) == IF i = 1 THEN n % 1000 ELSE Group(n \div 1000, i - 1)

\* the natural number n
Num(n) == [i \in Groups |-> Group(n, i)]

\* the number written in groups of three digits, as in 7_500_000_000
Grouped(s) == [i \in Groups |-> IF i <= Len(s) THEN s[Len(s) + 1 - i] ELSE 0]

RECURSIVE TimesCarry(_, _, _)
TimesCarry(a, k, i) ==
    IF i = 1 THEN 0 ELSE (a[i - 1] * k + TimesCarry(a, k, i - 1)) \div 1000

\* a * k
Times(a, k) == [i \in Groups |-> (a[i] * k + TimesCarry(a, k, i)) % 1000]

RECURSIVE PlusCarry(_, _, _)
PlusCarry(a, b, i) ==
    IF i = 1 THEN 0 ELSE (a[i - 1] + b[i - 1] + PlusCarry(a, b, i - 1)) \div 1000

\* a + b
Plus(a, b) == [i \in Groups |-> (a[i] + b[i] + PlusCarry(a, b, i)) % 1000]

\* a > b
Greater(a, b) ==
    \E i \in Groups : a[i] > b[i] /\ \A j \in Groups : j > i => a[j] = b[j]

\* Snitchvis.PIXEL_LIMIT_VIDEO, line 43
PIXEL_LIMIT_VIDEO == Grouped(<<7, 500, 0, 0>>)

\* Snitchvis.PIXEL_LIMIT_DAY, line 45
PIXEL_LIMIT_DAY == Grouped(<<500, 0, 0, 0>>)

\* timedelta(days=1), line 906, in seconds
Day == 24 * 60 * 60

\* render, line 894
NumPixels(duration, fps, size) == Times(Times(duration, fps), size * size)

\* a > limit * m, for a multiplier of either sign: a pixel count is not
\* negative, so it is above every negative product
Exceeds(a, limit, m) == IF m < 0 THEN TRUE ELSE Greater(a, Times(limit, m))

\* the per-request gate rejects at the ceiling already
TooLargeAtCeiling(num_pixels, m) ==
    IF m < 0 THEN TRUE ELSE ~Greater(Times(PIXEL_LIMIT_VIDEO, m), num_pixels)

\* render, line 895
TooLarge(num_pixels, m) == Exceeds(num_pixels, PIXEL_LIMIT_VIDEO, m)

\* the sum of pixel_usage over the rows of the table that lie in the set rows
RECURSIVE SumRows(_, _)
SumRows(ledger, rows) ==
    IF rows = {} THEN Num(0)
    ELSE LET row == CHOOSE r \in rows : TRUE
         IN  Plus(Times(row.pixel_usage, ledger[row]), SumRows(ledger, rows \ {row}))

\* db.get_pixel_usage, lines 451-461
get_pixel_usage(ledger, start, end) ==
    SumRows(ledger, {row \in DOMAIN ledger : row.timestamp > start /\ row.timestamp < end})

\* the daily gate lets every request pass
OverQuotaIgnored(usage, m) == FALSE

\* render, line 909
OverQuota(usage, m) == Exceeds(usage, PIXEL_LIMIT_DAY, m)

\* render, line 757
Busy(running) == running >= MAXIMUM_CONCURRENT_RENDERS

\* message.created_at, src/db.py line 382: the id of a message is a snowflake,
\* which holds the time the message was posted. Events are queried by time
\* where every message was posted before the start, one second apart
created_at(m) == m - 1 - Max(MsgIds)

\* db.most_recent_event, lines 392-398: the message of the newest event of
\* the guild, <<>> for None
most_recent_event(ev) ==
    LET stored == {m \in DOMAIN ev : ev[m] > 0}
    IN  IF stored = {} THEN <<>>
        ELSE <<CHOOSE m \in stored : \A x \in stored : created_at(x) <= created_at(m)>>

\* db.get_events, lines 400-447, for the roles of the author: the events of
\* the snitch channels one of the roles may view, inside the bounds that are
\* given (Where.add leaves out a bound of None or 0, which is <<>> here)
get_events(sc, rows, ev, hist, roles, start, end) ==
    LET channel_ids == {c \in DOMAIN sc : allowed_roles(rows, c) \cap roles # {}}
    IN  {m \in DOMAIN ev :
            /\ ev[m] > 0
            /\ m \in DOMAIN hist
            /\ hist[m].channel \in channel_ids
            /\ start = <<>> \/ created_at(m) >= start[1]
            /\ end = <<>> \/ created_at(m) <= end[1]}

\* render, line 768: `if past`, for the value "all" or a timedelta
Past(past) == past # <<>> /\ (past[1].all \/ past[1].seconds # 0)

\* render, lines 768-796: the bounds of the window at time t; recent is the
\* time of the newest event of the guild
Window(past, start, end, recent, t) ==
    IF Past(past)
    THEN [start |-> IF past[1].all THEN <<>> ELSE <<t - past[1].seconds>>, end |-> <<t>>]
    ELSE IF start = <<>> /\ end = <<>>
    THEN [start |-> <<recent - 30 * 60>>, end |-> <<recent>>]
    ELSE IF end = <<>> THEN [start |-> start, end |-> <<t>>]
    ELSE [start |-> start, end |-> end]

\* render, lines 750-916: the checks and the gates in the order the code
\* applies them
Verdict(args, running, ledger, m, t, sc, rows, ev, hist) ==
    LET recent == most_recent_event(ev)
        w == Window(args.past, args.start, args.end,
                    IF recent = <<>> THEN 0 ELSE created_at(recent[1]), t)
    IN  IF args.heatmap_percentage < 1 THEN "heatmap"
        ELSE IF Busy(running) THEN "busy"
        ELSE IF args.past # <<>> /\ (args.start # <<>> \/ args.end # <<>>)
        THEN "incompatible"
        ELSE IF ~Past(args.past) /\ args.start = <<>> /\ args.end = <<>> /\ recent = <<>>
        THEN "no_events"
        ELSE IF w.start # <<>> /\ w.end[1] < w.start[1] THEN "end_before_start"
        ELSE IF get_events(sc, rows, ev, hist, args.roles, w.start, w.end) = {}
        THEN "no_events"
        ELSE IF args.export # "none" THEN "export"
        ELSE IF TooLarge(NumPixels(args.duration, args.fps, args.size), m)
        THEN "too_large"
        ELSE IF OverQuota(get_pixel_usage(ledger, t - Day, t), m) THEN "quota"
        ELSE "admitted"

\* `.render` of a member who has role 1, with the defaults of its arguments
DefaultArgs ==
    [duration |-> Num(5), fps |-> 20, size |-> 700, heatmap_percentage |-> 20,
     past |-> <<>>, start |-> <<>>, end |-> <<>>, export |-> "none", roles |-> {1}]

\* the arguments of the render commands of a guild with multiplier m: the
\* default-sized render and, when the ceiling is not negative, one whose
\* estimate is the per-request ceiling and one whose estimate is one pixel
\* more; and the commands that the checks before the gates answer: a heatmap
\* percentage below 1, -p with --start, an end before the start, the events
\* of the last minute, and an export
RenderArgs(m) ==
    { DefaultArgs,
      [DefaultArgs EXCEPT !.heatmap_percentage = 0],
      [DefaultArgs EXCEPT !.past = <<[all |-> TRUE, seconds |-> 0]>>, !.start = <<0 - 1>>],
      [DefaultArgs EXCEPT !.start = <<0 - 1>>, !.end = <<0 - 2>>],
      [DefaultArgs EXCEPT !.past = <<[all |-> FALSE, seconds |-> 60]>>],
      [DefaultArgs EXCEPT !.export = "sql"] } \cup
    IF m < 0 THEN {}
    ELSE { [DefaultArgs EXCEPT !.duration = Num(250 * m), !.fps = 30, !.size = 1000],
           [DefaultArgs EXCEPT !.duration = Plus(Times(PIXEL_LIMIT_VIDEO, m), Num(1)),
                               !.fps = 1, !.size = 1] }

\* the values set-pixel-multiplier is given (convert=int: any integer)
Multipliers == (0 - 1)..MaxMultiplier

RenderIdle == [pc |-> "idle", num_pixels |-> Num(0)]

NoRequest == [num_pixels |-> Num(0), verdict |-> "none"]

\* the rows of n renders at the per-request ceiling, recorded just before the
\* start
PriorRows(n, m) ==
    IF n = 0 THEN EmptyBag
    ELSE [pixel_usage |-> Times(PIXEL_LIMIT_VIDEO, m), timestamp |-> 0 - 1] :> n

\* __init__, line 72, and the guild and render_history tables at startup
RenderStart(m, n) ==
    /\ multiplier = m
    /\ concurrent_renders = 0
    /\ render_history = PriorRows(n, m)
    /\ render = [t \in Renders |-> RenderIdle]
    /\ asked = NoRequest
    /\ requests = [render |-> 0, multiplier |-> 0]

\* a guild that has not rendered yet, with the multiplier of a new row
\* (src/db.py line 180), or a guild with renders behind it
RenderInit ==
    \/ RenderStart(1, 0)
    \/ \E m \in 1..MaxMultiplier : RenderStart(m, PriorRenders)

\* a request refused by the concurrency gate waits in its handler for a slot
AdmittedOrQueued(rs, t, n, v) ==
    IF v \in {"admitted", "busy"}
    THEN [rs EXCEPT ![t] = [pc |-> "sending", num_pixels |-> n]]
    ELSE rs

\* render, lines 757-921: the handler goes on after the gates only when the
\* request passed them all; every rejection is a send and a return
Admitted(rs, t, n, v) ==
    IF v = "admitted"
    THEN [rs EXCEPT ![t] = [pc |-> "sending", num_pixels |-> n]]
    ELSE rs

\* render, lines 742-916: a render command is checked by the gates, in the
\* first free handler t; a rejected command only sends its reply
Requested(t, args) ==
    /\ render[t].pc = "idle"
    /\ \A u \in Renders : u < t => render[u].pc # "idle"
    /\ requests.render + requests.multiplier < MaxRequests
    /\ requests' = [requests EXCEPT !.render = @ + 1]
    /\ LET v == Verdict(args, concurrent_renders, render_history, multiplier, now,
                        snitch_channel, snitch_channel_allowed_roles, event, history)
           n == NumPixels(args.duration, args.fps, args.size)
       IN  /\ asked' = [num_pixels |-> n, verdict |-> v]
           /\ render' = Admitted(render, t, n, v)

RenderRequest(t, args) ==
    /\ Requested(t, args)
    /\ UNCHANGED <<now, multiplier, concurrent_renders, render_history>>
    /\ UNCHANGED <<ingestVars, livemapVars>>

\* Command._invoke, src/command.py lines 99-224, for the arguments of a
\* command message: -d of render requires an integer, and index takes no
\* argument, so that every -d raises ParseError or ValueError, for which
\* invoke sends a reply (lines 92-97)
Parses(args) == args = <<>>

\* command messages are posted in channel 1; their text is no snitch message
CommandPosted == [channel |-> 1, content |-> "command"]

(* Snitchvis.on_message, src/main.py lines 159-160, for a message that invokes
   index, render or no command, of a member who has the role 1, with or
   without the permission manage_guild: Client.on_message and
   maybe_handle_command (src/client.py lines 89-166), Command.invoke
   (src/command.py lines 54-97) and the command, up to the first suspension.
   When no command is invoked nothing is awaited, and the handler goes on to
   lines 161-164 at once. Otherwise the handler is suspended where the command
   is: in the reply of invoke (the permission is missing, line 66; the
   arguments do not parse, line 96) or of the command (index or render
   refuses), in index (line 581) or in render (line 921). *)
CommandMessage(content, manage_guild) ==
    /\ connected
    /\ gateway = <<>>
    /\ Len(history) < MaxMsgs
    /\ LET m == Len(history) + 1
           r == maybe_handle_command(prefix, command, content, TRUE, 0)
           invoked == r.invoked[1]
           reply == [m |-> m, kind |-> "reply", t |-> 0]
       IN  /\ r.invoked # <<>> => invoked.name \in {"index", "render"}
           /\ history' = Append(history, CommandPosted)
           /\ handled' = [content |-> content, invoked |-> r.invoked, depth |-> r.depth]
           /\ IF r.invoked = <<>>
              THEN /\ Ingested({m}, Append(history, CommandPosted), aborted)
                   /\ UNCHANGED <<invoking, index, render, asked, requests>>
              ELSE IF (invoked.name = "index" /\ ~manage_guild) \/ ~Parses(invoked.args)
              THEN /\ invoking' = invoking \cup {reply}
                   /\ UNCHANGED <<indexedVars, aborted, index, render, asked, requests>>
              ELSE IF invoked.name = "index"
              THEN /\ \E t \in IndexTasks :
                        /\ index[t].pc = "idle"
                        /\ \A u \in IndexTasks : u < t => index[u].pc # "idle"
                        /\ index' = Indexing(t)
                        /\ invoking' = invoking \cup
                                {IF Indexing(t)[t] = Idle
                                 THEN reply ELSE [m |-> m, kind |-> "index", t |-> t]}
                   /\ UNCHANGED <<indexedVars, aborted, render, asked, requests>>
              ELSE /\ \E t \in Renders :
                        /\ Requested(t, DefaultArgs)
                        /\ invoking' = invoking \cup
                                {IF render'[t] = RenderIdle
                                 THEN reply ELSE [m |-> m, kind |-> "render", t |-> t]}
                   /\ UNCHANGED <<indexedVars, aborted, index>>
    /\ UNCHANGED <<readable, guild_channels, connected, gateway, snitch_channel_allowed_roles,
                   defer_indexing, indexing_guilds, ready, raced, command, prefix, parsed,
                   reindexed>>
    /\ UNCHANGED <<ready_again, now, livemapVars, multiplier, concurrent_renders,
                   render_history>>

(* Command.invoke, src/command.py lines 66 and 96, index, src/main.py lines
   567-598, and render, lines 757-916: the reply of a command that only
   replies was sent, the command returns, and the on_message of its message m
   goes on to lines 161-164 *)
CommandReplied(m) ==
    /\ \E e \in invoking : e.m = m /\ e.kind = "reply"
    /\ invoking' = {e \in invoking : e.m # m}
    /\ Ingested({m}, history, aborted)
    /\ UNCHANGED <<handlerKept, now, livemapVars, renderVars>>

\* render, lines 921-962: "rendering video..." was sent, the counter is
\* incremented and the render handed to the process pool
RenderDispatch(t) ==
    /\ render[t].pc = "sending"
    /\ concurrent_renders' = concurrent_renders + 1
    /\ render' = [render EXCEPT ![t].pc = "rendering"]
    /\ UNCHANGED <<now, multiplier, render_history, asked, requests>>
    /\ UNCHANGED <<ingestVars, livemapVars>>

\* render, lines 962-963: the render returns, or it raises and the handler
\* ends without the decrement, as does the on_message that awaits it
RenderComplete(t, ok) ==
    /\ render[t].pc = "rendering"
    /\ IF ok
       THEN /\ concurrent_renders' = concurrent_renders - 1
            /\ render' = [render EXCEPT ![t].pc = "uploading"]
       ELSE /\ render' = [render EXCEPT ![t] = RenderIdle]
            /\ UNCHANGED concurrent_renders
    /\ IF ok THEN UNCHANGED invoking ELSE Raises("render", t)
    /\ UNCHANGED <<now, multiplier, render_history, asked, requests>>
    /\ UNCHANGED <<handlerKept, indexedVars, aborted, livemapVars>>

\* db.add_render_history, lines 463-465
add_render_history(ledger, pixel_usage, timestamp) ==
    ledger (+) SetToBag({[pixel_usage |-> pixel_usage, timestamp |-> timestamp]})

\* render, lines 965-982: the file is uploaded and the render recorded (the
\* INSERT goes through db.execute, which commits), after which the command
\* returns and the on_message of its message goes on (lines 160-164); or the
\* upload raises
RenderRecord(t, ok) ==
    /\ render[t].pc = "uploading"
    /\ render_history' = IF ok
                         THEN add_render_history(render_history, render[t].num_pixels, now)
                         ELSE render_history
    /\ IF ok
       THEN Returns("render", t, commit(aborted))
       ELSE /\ Raises("render", t)
            /\ UNCHANGED <<indexedVars, aborted>>
    /\ render' = [render EXCEPT ![t] = RenderIdle]
    /\ UNCHANGED <<now, multiplier, concurrent_renders, asked, requests>>
    /\ UNCHANGED <<handlerKept, livemapVars>>

\* set_pixel_multiplier, lines 1451-1454: db.set_guild_multiplier writes the
\* guild's pixel_limit_multiplier and commits; renders that passed the gates
\* go on
SetPixelMultiplier(m) ==
    /\ requests.render + requests.multiplier < MaxRequests
    /\ requests' = [requests EXCEPT !.multiplier = @ + 1]
    /\ multiplier' = m
    /\ aborted' = commit(aborted)
    /\ UNCHANGED <<now, concurrent_renders, render_history, render, asked>>
    /\ UNCHANGED <<ingestKept, livemapVars>>

\* half a day passes, until the rows of the first half day are a day old
RenderTick ==
    /\ now + Day \div 2 <= Day
    /\ now' = now + Day \div 2
    /\ UNCHANGED renderVars
    /\ UNCHANGED <<ingestVars, livemapVars>>

-----------------------------------------------------------------------------
(* Specifications *)

Init == IngestInit /\ now = 0 /\ LivemapStart(0, FALSE) /\ RenderStart(1, 0)

Message == \E c \in Channels, content \in Contents : PostMessage(c, content)

\* the steps of on_ready invocation i when every request succeeds
OnReady(i) ==
    \/ OnReadySkip(i)
    \/ OnReadyHistory(i)
    \/ OnReadyStore(i)
    \/ OnReadyCommit(i)
    \/ \E k \in Callers : OnReadyDrain(i, k)
    \/ OnReadyFinish(i)

Sweep == OnReadyStart \/ OnReady(1)

IndexCommand(t) ==
    \/ IndexCheck(t)
    \/ IndexBegin(t)
    \/ IndexHistory(t)
    \/ IndexStore(t)
    \/ IndexFinish(t)

\* startup sweeps, one per connection, with messages arriving before, during
\* and after them
SweepNext == Message \/ Sweep \/ Disconnect
SpecSweep == Init /\ [][SweepNext]_vars

\* one connection: its startup sweep, .index commands one after the other and
\* live ingestion
Next == Message \/ Sweep \/ IndexCommand(1)
IndexSpecInit == VisibleInit /\ now = 0 /\ LivemapStart(0, FALSE) /\ RenderStart(1, 0)

Spec == IndexSpecInit /\ [][Next]_vars

\* the livemap: notifications, set-livemap-channel commands, the ticks of
\* check_outdated_livemaps and the clock
LivemapCaller(k) ==
    \/ Notify(k)
    \/ \E c \in LChannels : SetLivemapChannel(k, c)
    \/ SetRefresh(k)
    \/ \E ok \in BOOLEAN : CallerDone(k, ok)

LivemapNext ==
    \/ Tick
    \/ \E k \in Callers : LivemapCaller(k)
    \/ SweepStart
    \/ \E ok \in BOOLEAN : SweepDone(ok)

LivemapSpecInit ==
    StoredStart(1) /\ now = 0 /\ LivemapStart(1, TRUE) /\ RenderStart(1, 0)
SpecLivemap == LivemapSpecInit /\ [][LivemapNext]_vars

\* live ingestion and .index commands after the startup sweep; the event of
\* a message may reach on_message after a history request has returned it
LiveMessage == \E c \in Channels, content \in Contents : PostUndelivered(c, content)

LiveNext == Message \/ LiveMessage \/ Deliver \/ IndexCommand(1)

LiveSpecInit ==
    /\ \E v \in Visible, registered \in Registrations :
            LiveStart(v.readable, v.guild_channels, registered)
    /\ now = 0 /\ LivemapStart(0, FALSE) /\ RenderStart(1, 0)

SpecLive == LiveSpecInit /\ [][LiveNext]_vars

\* one .index command on a history that does not change meanwhile
BackfillSpecInit == BackfillInit /\ now = 0 /\ LivemapStart(0, FALSE) /\ RenderStart(1, 0)

SpecBackfill == BackfillSpecInit /\ [][IndexCommand(1)]_vars

\* .index commands of several members, interleaved at their suspension points
IndexRaceNext == \E t \in IndexTasks : IndexCommand(t)

SpecIndexRace == BackfillSpecInit /\ [][IndexRaceNext]_vars

\* .index commands, one after the other, while messages are posted and
\* ingested live
IndexLiveNext ==
    \/ \E c \in Channels, content \in Contents : Post(MaxHistory, c, content)
    \/ IndexCommand(1)

SpecIndexLive == BackfillSpecInit /\ [][IndexLiveNext]_vars

\* .index commands, one after the other, and one .full-reindex -y, which
\* goes on as an .index command of its own
ReindexNext ==
    \/ IndexCommand(1)
    \/ FullReindex(2)
    \/ IndexBegin(2) \/ IndexHistory(2) \/ IndexStore(2) \/ IndexFinish(2)

SpecReindex == BackfillSpecInit /\ [][ReindexNext]_vars

\* .index commands, one after the other, whose history requests can fail
AbortNext == IndexCommand(1) \/ IndexHistoryFails(1)

SpecAbort == BackfillSpecInit /\ [][AbortNext]_vars

\* live ingestion with its notification of the livemap: channel 1 may have
\* been backfilled, and the guild may have a livemap channel
NotifyInit ==
    \E h \in {<<>>, <<"ping">>}, registered \in Registrations, row \in {0, 1} :
        /\ BackfillStart(h, Len(h), registered)
        /\ LivemapStart(row, TRUE)

NotifyNext ==
    \/ \E k \in Callers, c \in Channels, content \in Contents : OnMessage(k, c, content)
    \/ \E k \in Callers, ok \in BOOLEAN : CallerDone(k, ok)

NotifySpecInit == NotifyInit /\ now = 0 /\ RenderStart(1, 0)

SpecNotify == NotifySpecInit /\ [][NotifyNext]_vars

\* custom commands are created and the prefix is set while no handler is
\* suspended in a command; command messages are handled, and the commands
\* they invoke run on, concurrently
CommandsNext ==
    \/ \E name \in Names, text \in Texts : invoking = {} /\ CreateCommand(name, text)
    \/ \E new \in {<<p>> : p \in Prefixes} \cup {<<"!", "!">>} :
            invoking = {} /\ SetPrefix(new)
    \/ \E content \in CommandContents, manage_guild \in BOOLEAN :
            CommandMessage(content, manage_guild)
    \/ \E m \in MsgIds : CommandReplied(m)
    \/ \E t \in IndexTasks : IndexBegin(t)
    \/ \E t \in IndexTasks : IndexHistory(t)
    \/ \E t \in IndexTasks : IndexStore(t)
    \/ \E t \in IndexTasks : IndexFinish(t)
    \/ \E t \in Renders : RenderDispatch(t)
    \/ \E t \in Renders, ok \in BOOLEAN : RenderComplete(t, ok)
    \/ \E t \in Renders, ok \in BOOLEAN : RenderRecord(t, ok)

\* snitch channel 1 has no message yet, or one stored event; on_ready has
\* ended, by its return or by an exception
CommandsSpecInit ==
    /\ \E n \in {0, 1}, deferred \in BOOLEAN :
            Started([m \in 1..n |-> "ping"], n, <<1>>, deferred)
    /\ now = 0 /\ LivemapStart(0, FALSE) /\ RenderStart(1, 0)

SpecCommands == CommandsSpecInit /\ [][CommandsNext]_vars

\* the lists of kira configs of a guild: db.get_kira_configs
ConfigLists == UNION {[1..n -> KiraConfigs] : n \in 0..MaxConfigs}

\* messages are parsed with the configs of their guild
ParseNext == \E raw_event \in RawEvents, kira_configs \in ConfigLists :
                ParseEvent(raw_event, kira_configs)

ParseSpecInit ==
    LiveStart({}, {}, <<>>) /\ now = 0 /\ LivemapStart(0, FALSE) /\ RenderStart(1, 0)

SpecParse == ParseSpecInit /\ [][ParseNext]_vars

\* the lists of roles .add-channel can be given (nargs="+")
RoleLists == UNION {[1..n -> Roles] : n \in 1..NumRoles}

\* the lists of channels .remove-channel can be given (nargs="+")
ChannelLists == UNION {[1..n -> Channels] : n \in 1..NumChannels}

\* the commands .add-channel and .remove-channel
ChannelsNext ==
    \/ \E c \in Channels, roles \in RoleLists : ChannelAdd(c, roles)
    \/ \E channels \in ChannelLists : ChannelRemove(channels)

SpecChannels == LiveSpecInit /\ [][ChannelsNext]_vars

\* the clock of the first tick of the loop
OutdatedTick == Advance(TimeStep)

\* the first tick of the refresh loop, from the moment on_ready starts it:
\* while the loop is suspended in a refresh, snitch messages and
\* set-livemap-channel commands arrive one after the other
OutdatedNext ==
    \/ OutdatedTick
    \/ sweep.pc = "render" /\ Notify(1)
    \/ \E c \in LChannels : sweep.pc = "render" /\ SetLivemapChannel(1, c)
    \/ SetRefresh(1)
    \/ \E ok \in BOOLEAN : CallerDone(1, ok)
    \/ SweepStart
    \/ \E ok \in BOOLEAN : SweepDone(ok)

\* every notification of the list was made for a snitch message that
\* maybe_index_message had stored (lines 186-193); with no notification the
\* one message of the channel was stored by the backfill
OutdatedStart(ns) ==
    /\ OutdatedInit(ns)
    /\ StoredStart(Max({1, Len(ns)}))
    /\ now = 0
    /\ RenderStart(1, 0)

OutdatedSpecInit == \E ns \in Notifications : OutdatedStart(ns)

\* one or two notifications, the first of them for channel 1
FirstTickSpecInit ==
    \E ns \in {l \in Notifications : Len(l) \in {1, 2} /\ l[1].chan = 1} : OutdatedStart(ns)

SpecOutdated == FirstTickSpecInit /\ [][OutdatedNext]_vars

\* the refresh loop with schedules left by earlier notifications, while
\* snitch messages and set-livemap-channel commands go on arriving
SpecOverwrite == OutdatedSpecInit /\ [][LivemapNext]_vars

\* the bot of a guild with a livemap channel, started without
\* config.ERROR_LOG_CHANNEL: error_log_channel is None (src/client.py lines
\* 26 and 68-69)
LoopSpecInit == StoredStart(1) /\ now = 0 /\ LivemapStart(1, FALSE) /\ RenderStart(1, 0)

SpecLoop == LoopSpecInit /\ [][LivemapNext]_vars

\* the refresh loop with no further notification: the loop runs its tick
\* when it is due, and every refresh it awaits ends
QuiesceSpecInit == StoredStart(1) /\ now = 0 /\ QuiesceInit /\ RenderStart(1, 0)

QuiesceNext ==
    \/ QuiesceTick
    \/ SweepStart
    \/ \E ok \in BOOLEAN : SweepDone(ok)

SpecQuiesce ==
    /\ QuiesceSpecInit /\ [][QuiesceNext]_vars
    /\ WF_vars(QuiesceTick) /\ WF_vars(SweepStart)
    /\ WF_vars(\E ok \in BOOLEAN : SweepDone(ok))

\* render commands of one guild
RenderCommand(t) ==
    \/ \E args \in RenderArgs(multiplier) : RenderRequest(t, args)
    \/ RenderDispatch(t)
    \/ \E ok \in BOOLEAN : RenderComplete(t, ok)
    \/ \E ok \in BOOLEAN : RenderRecord(t, ok)

RenderNext ==
    \/ RenderTick
    \/ \E t \in Renders : RenderCommand(t)
    \/ \E m \in Multipliers : SetPixelMultiplier(m)

\* a guild whose snitch channel has no message yet, or one stored event
RenderSpecInit ==
    /\ \E n \in {0, 1} : StoredStart(n)
    /\ now = 0 /\ LivemapStart(0, FALSE) /\ RenderInit
SpecRender == RenderSpecInit /\ [][RenderNext]_vars

\* a message is posted while no on_ready invocation is between two of its
\* suspension points: handlers run to their next await without interruption
Arrives(limit) ==
    \E c \in Channels, content \in Contents :
        /\ \A i \in {1, 2} : Running(Invocation(i)) => Suspended(Invocation(i))
        /\ Post(limit, c, content)

\* one connection of a guild that may have a livemap channel: the startup
\* sweep, whose drain is suspended while the livemap is refreshed, and live
\* ingestion after it
DrainNext ==
    \/ (~connected \/ defer_indexing) /\ Arrives(MaxSweepMsgs)
    \/ \E k \in Callers, c \in Channels, content \in Contents : OnMessage(k, c, content)
    \/ OnReadyStart
    \/ OnReady(1)
    \/ \E k \in Callers, ok \in BOOLEAN : OnReadyResume(1, k, ok)
    \/ \E k \in Callers, ok \in BOOLEAN : ready.pc # "notify" /\ CallerDone(k, ok)

\* the channels are numbered in the order of their registration (they
\* differ in nothing but their id)
DrainSpecInit ==
    /\ \E rd \in SUBSET Channels, n \in 0..NumChannels :
            IngestStart(rd, Channels, [i \in 1..n |-> i])
    /\ now = 0
    /\ \E row \in {0, 1} : LivemapStart(row, TRUE)
    /\ RenderStart(1, 0)

SpecDrain == DrainSpecInit /\ [][DrainNext]_vars

\* one connection: its startup sweep, an .index command at a time and live
\* ingestion, with what the open transaction of the database holds
\* on_guild_join (src/client.py lines 74-78), add_kira_config (src/main.py
\* lines 1367-1424) and import_snitches (lines 1007-1060) write tables that
\* are no part of the state (the row of another guild, the kira configs,
\* which are an input of ParseEvent, and the snitches) and commit
OtherWrite ==
    /\ aborted' = commit(aborted)
    /\ UNCHANGED <<ingestKept, now, livemapVars, renderVars>>

CommitNext ==
    \/ Arrives(MaxSweepMsgs)
    \/ Sweep
    \/ IndexCommand(1)
    \/ OtherWrite

SpecCommit == Init /\ [][CommitNext]_vars

\* one connection on which READY is sent a second time while the startup
\* sweep of the first is running
ReentryNext ==
    \/ Arrives(MaxMsgs)
    \/ OnReadyStart
    \/ OnReadyAgain
    \/ \E i \in {1, 2} : OnReady(i)

SpecReentry == Init /\ [][ReentryNext]_vars

\* one startup sweep whose history requests can fail; the event loop resumes
\* on_ready whenever the request it waits for has returned
SweepFairNext ==
    \/ Arrives(MaxMsgs)
    \/ OnReadyStart
    \/ OnReady(1)
    \/ OnReadyHistoryFails(1)

SpecSweepFair == Init /\ [][SweepFairNext]_vars /\ WF_vars(OnReady(1))

----------------------------------------------------------------------------
(* Claims *)

IntegrityError(m) == [exc |-> "IntegrityError", id |-> m]

\* the event table holds one row for each message of c that parses and none
\* for the others
StoredExactly(c) ==
    \A m \in ChannelMessages(c) :
        event[m] = IF parse_event(history[m].content) THEN 1 ELSE 0

\* C1: inserting an event whose message_id already has a row is a no-op: no
\* error is raised and the table still holds exactly one row for that id
C1_IdempotentInsert ==
    \A m \in reinserted : event[m] = 1 /\ IntegrityError(m) \notin raised

\* C2: the stored last_indexed_id of a channel never decreases: once set,
\* every later write stores a value greater than or equal to the previous one
C2_CursorMonotonic ==
    [][\A c \in DOMAIN snitch_channel :
          snitch_channel[c] # 0 =>
              /\ c \in DOMAIN snitch_channel'
              /\ snitch_channel'[c] >= snitch_channel[c]]_vars

\* C3: when the startup sweep sets defer_indexing back to False, every
\* backfilled channel holds exactly one event per matching message of its
\* history, whenever the messages arrived
C3_NoLossNoDuplication ==
    [][(defer_indexing /\ ~defer_indexing') =>
          \A c \in DOMAIN snitch_channel \cap readable : StoredExactly(c)']_vars

\* C4: a message that was on indexing_queue when the backfill of its channel
\* read it from the history never raises a primary-key error, and once the
\* drain is over it has exactly one event row
C4_RaceSafety ==
    \A m \in raced :
        /\ IntegrityError(m) \notin raised
        /\ (~defer_indexing => event[m] = 1)

\* the sweep is over and the drain has met a message the backfill had read
C4_Witness ==
    /\ raced # {}
    /\ ~defer_indexing
    /\ ready.pc = "idle"
    /\ indexing_queue = <<>>

\* C5: the cursor never moves past an unprocessed message: every matching
\* message of a channel with id <= last_indexed_id has an event row
C5_CursorCovers ==
    \A c \in DOMAIN snitch_channel :
        \A m \in ChannelMessages(c) :
            (m <= snitch_channel[c] /\ parse_event(history[m].content))
                => event[m] >= 1

\* C6: for every channel at most one _update_livemap is in flight at any
\* time, whatever the interleaving of notifications, sweep ticks and
\* set-livemap-channel commands, and livemap_updating_channels never holds an
\* id twice
C6_SingleFlight ==
    \A c \in LChannels :
        /\ InFlight(c) <= 1
        /\ Occurrences(livemap_updating_channels, c) <= 1

\* a notification arrived for a channel whose refresh is still in flight
C6_Witness ==
    \E c \in LChannels :
        /\ InFlight(c) = 1
        /\ since[c].inflight >= 1
        /\ ~since[c].over

\* C10 as stated: after a channel was notified twice during a refresh in
\* flight, no second refresh runs concurrently and at most one more refresh is
\* started for it
C10_OneAdditionalRefresh ==
    \A c \in LChannels :
        since[c].inflight >= 2 => InFlight(c) <= 1 /\ since[c].started <= 1

\* the renders handed to the process pool that have not returned
Rendering == Cardinality({t \in Renders : render[t].pc = "rendering"})

\* PIXEL_LIMIT_VIDEO x multiplier
Ceiling == Times(PIXEL_LIMIT_VIDEO, multiplier)

\* the sum of the render_history rows of the last 24 hours
TrailingSum ==
    SumRows(render_history,
        {row \in DOMAIN render_history : now - Day < row.timestamp /\ row.timestamp < now})

\* C7: the renders of the guild that were dispatched to the rendering process
\* and have not completed never exceed MAXIMUM_CONCURRENT_RENDERS
C7_ConcurrencyLimit == Rendering <= MAXIMUM_CONCURRENT_RENDERS

\* C8: a render command whose estimate equals PIXEL_LIMIT_VIDEO x multiplier
\* is not rejected by the per-request gate; one whose estimate is one pixel
\* larger is rejected, by the per-request gate unless a check before it
\* already did (the concurrency gate, or the guild has no event to render),
\* and then no render_history row is added, no render is dispatched and
\* concurrent_renders is unchanged
C8_PerRequestCeiling ==
    [][(requests'.render # requests.render /\ multiplier >= 0) =>
        /\ asked'.num_pixels = Ceiling => asked'.verdict # "too_large"
        /\ asked'.num_pixels = Plus(Ceiling, Num(1)) =>
                /\ asked'.verdict = IF Busy(concurrent_renders) THEN "busy"
                                     ELSE IF most_recent_event(event) = <<>> THEN "no_events"
                                     ELSE "too_large"
                /\ UNCHANGED <<render_history, concurrent_renders, render>>]_vars

\* a render at the ceiling is running and a command one pixel above the
\* ceiling was rejected
C8_Witness ==
    /\ multiplier >= 1
    /\ asked = [num_pixels |-> Plus(Ceiling, Num(1)), verdict |-> "too_large"]
    /\ \E t \in Renders : render[t].pc = "rendering" /\ render[t].num_pixels = Ceiling

\* C9 as stated: the sum of the guild's render_history rows of the last 24
\* hours never exceeds PIXEL_LIMIT_DAY x multiplier
C9_DailyCeiling == ~Exceeds(TrailingSum, PIXEL_LIMIT_DAY, multiplier)

\* C9 amended: a render command passes the gates only while the sum of the
\* guild's render_history rows of the last 24 hours does not exceed
\* PIXEL_LIMIT_DAY x multiplier
C9_AdmittedWithinCeiling ==
    [][\A t \in Renders :
        (render[t].pc = "idle" /\ render'[t].pc = "sending") =>
            ~Exceeds(TrailingSum, PIXEL_LIMIT_DAY, multiplier)]_vars

\* a command was admitted on top of earlier renders, and the sum of the last
\* 24 hours has since passed the ceiling
C9_Witness ==
    /\ multiplier >= 1
    /\ Exceeds(TrailingSum, PIXEL_LIMIT_DAY, multiplier)
    /\ asked.verdict = "quota"
    /\ \E row \in DOMAIN render_history : row.timestamp = 0
\* one step of check_outdated_livemaps: the items its for loop gets to, the
\* tick's `now`, and the calls of update_livemap_channel it makes
SweepSteps ==
    \/ sweep.pc = "sleep" /\ sweep'.next # sweep.next
    \/ sweep.pc = "render" /\ sweep' # sweep /\ ~sweep'.err

SweepTaken ==
    LET items == IF sweep.pc = "sleep" THEN livemaps_refresh_at ELSE sweep.items
    IN  SubSeq(items, 1, Len(items) - Len(sweep'.items))

SweepNow == IF sweep.pc = "sleep" THEN now ELSE sweep.now

SweepCalls(c) ==
    LET before == IF sweep.pc = "sleep" THEN 0 ELSE Len(sweep.calls)
    IN  Cardinality({i \in DOMAIN sweep'.calls : i > before /\ sweep'.calls[i].chan = c})

\* the timestamps of old that are later than t, and only those, are left
DueDropped(old, new, t) ==
    /\ \A i \in DOMAIN new : new[i] > t
    /\ Len(new) = Cardinality({i \in DOMAIN old : old[i] > t})
    /\ new = SubSeq(old, Len(old) - Len(new) + 1, Len(old))

HasDue(refresh_at, t) == \E i \in DOMAIN refresh_at : refresh_at[i] <= t

\* the schedule of the item's channel still is the one the run has copied
\* (line 199): no notification has replaced it since
Current(item) == DictGet(livemaps_refresh_at, item.key) = item.val

\* what the loop does with one item, calling update_livemap_channel `calls`
\* times when timestamps of the item are due
SweptItem(item, calls) ==
    IF HasDue(item.val, SweepNow)
    THEN /\ DueDropped(item.val, DictGet(livemaps_refresh_at', item.key), SweepNow)
         /\ SweepCalls(item.key) = calls
    ELSE /\ DictGet(livemaps_refresh_at', item.key) = DictGet(livemaps_refresh_at, item.key)
         /\ SweepCalls(item.key) = 0

StaleLive ==
    /\ gateway # <<>>
    /\ gateway' = Tail(gateway)
    /\ ~defer_indexing
    /\ history[Head(gateway)].channel \in DOMAIN snitch_channel
    /\ snitch_channel[history[Head(gateway)].channel] >= Head(gateway)

\* C13: a live message of a channel with a cursor whose id is <= last_indexed_id
\* is ignored by live ingestion: no event is inserted, no error is raised
\* and last_indexed_id is unchanged.
C13_StaleLiveIgnored ==
    [][StaleLive => /\ event' = event
                    /\ raised' = raised
                    /\ snitch_channel' = snitch_channel]_vars

\* the backfill of index_channel that a step of .index completes
Backfilled(t) == index[t].pc = "last" /\ index'[t].pc # "last"

\* the matching messages of channel c above the cursor last_id
NewMatching(c, last_id) ==
    {m \in ChannelMessages(c) : m > last_id /\ history[m].content = "ping"}

\* C12: index_channel on a channel with cursor c (0: none) buffers exactly the
\* events of the matching history messages with id > c, stores one event row
\* for each of them and for no other message, and sets last_indexed_id to the
\* id of the channel's newest message, matching or not.
C12_BackfillExact ==
    [][\A t \in IndexTasks : Backfilled(t) =>
          LET h == Head(index[t].todo)
          IN  /\ Range(index[t].buf) = NewMatching(h.id, h.last_indexed_id)
              /\ Len(index[t].buf) = Cardinality(NewMatching(h.id, h.last_indexed_id))
              /\ \A m \in MsgIds :
                    event'[m] = event[m]
                        + (IF m \in NewMatching(h.id, h.last_indexed_id) THEN 1 ELSE 0)
              /\ raised' = raised
              /\ snitch_channel'[h.id] =
                    IF ChannelMessages(h.id) = {} THEN snitch_channel[h.id]
                    ELSE Max(ChannelMessages(h.id))]_vars

\* index_channel has read the history of a channel without a cursor that
\* holds 3 matching and 2 other messages, the newest not matching, and has
\* buffered the 3 events it is about to store
C12_Witness ==
    /\ index[1].pc = "last"
    /\ Head(index[1].todo) = [id |-> 1, last_indexed_id |-> 0]
    /\ Len(history) = 5
    /\ history[5].content = "chat"
    /\ Len(index[1].buf) = 3
    /\ \A m \in MsgIds : event[m] = 0

\* on_message hands a message of channel c to maybe_index_message
Handled(c) ==
    /\ connected /\ ~defer_indexing /\ gateway = <<>>
    /\ Len(history') = Len(history) + 1
    /\ history'[Len(history')].channel = c

\* C14: maybe_index_message on a message whose channel is registered without
\* a last_indexed_id, or is not registered, changes nothing: no event row is
\* inserted, no cursor is written, no refresh is scheduled or started.
C14_NoCursorNoEffect ==
    [][\A c \in Channels :
          (Handled(c) /\ (c \notin DOMAIN snitch_channel \/ snitch_channel[c] = 0)) =>
              /\ event' = event
              /\ snitch_channel' = snitch_channel
              /\ raised' = raised
              /\ livemaps_refresh_at' = livemaps_refresh_at
              /\ livemap_updating_channels' = livemap_updating_channels
              /\ livemap_last_uploaded' = livemap_last_uploaded
              /\ caller' = caller]_vars

\* a matching message of a registered channel that was never backfilled has
\* been handled in a guild with a livemap channel: nothing was stored or
\* scheduled
C14_Witness ==
    /\ livemap_channel # 0
    /\ \E m \in DOMAIN history :
            /\ history[m].channel \in DOMAIN snitch_channel
            /\ history[m].channel # 1
            /\ history[m].content = "ping"
            /\ snitch_channel[history[m].channel] = 0
            /\ event[m] = 0
    /\ livemaps_refresh_at = <<>>
    /\ livemap_updating_channels = <<>>

\* C15: when a refresh of a channel ends, whether _update_livemap returns or
\* raises, the channel is removed from livemap_updating_channels: a channel
\* is listed there only while a refresh of it is in flight, so that a later
\* refresh request for it can run.
C15_ReleasedOnExit ==
    \A c \in LChannels : Occurrences(livemap_updating_channels, c) = InFlight(c)

\* the refresh of a run of the loop has raised, and a later run is
\* refreshing the same channel
C15_Witness ==
    /\ sweep.pc = "render"
    /\ sweep.err
    /\ sweep.chan = livemap_channel
    /\ livemap_updating_channels = <<sweep.chan>>

\* C16: concurrent_renders is decremented after every dispatched render,
\* failed or not: whenever no render of the guild is in flight the counter
\* is 0.
C16_CounterReleased ==
    (\A t \in Renders : render[t].pc # "rendering") => concurrent_renders = 0

\* C17: an exception raised by a refresh during check_outdated_livemaps does
\* not stop the periodic loop, whether or not an error log channel is
\* configured: later ticks still run.
C17_LoopSurvives == sweep.pc # "stopped"

\* .add-channel registers channel c
Added(c) == c \notin DOMAIN snitch_channel /\ c \in DOMAIN snitch_channel'

\* the roles .add-channel was given
AddedRoles(c) ==
    {snitch_channel_allowed_roles'[i].role_id :
        i \in {j \in DOMAIN snitch_channel_allowed_roles' :
                    /\ j > Len(snitch_channel_allowed_roles)
                    /\ snitch_channel_allowed_roles'[j].channel_id = c}}

\* C19: after .remove-channel and .add-channel of the same channel with roles
\* R the channel's allowed roles are exactly R: a role of the earlier
\* registration alone does not show the channel's events.
C19_RolesReplaced ==
    [][\A c \in Channels : Added(c) =>
          /\ allowed_roles(snitch_channel_allowed_roles', c) = AddedRoles(c)
          /\ \A r \in Roles \ AddedRoles(c) :
                c \notin ViewableChannels(snitch_channel',
                                          snitch_channel_allowed_roles', {r})]_vars

\* C20: handling one message dispatches at most one command, and a custom
\* command expands only to a built-in command: maybe_handle_command recurses
\* at most once and ends, also when the text of a custom command names the
\* command itself or another custom command. Under the default prefix the
\* expansion invokes its built-in command; under another prefix the stored
\* text, which begins with ".", matches no command and nothing is invoked.
C20_OneCommandPerMessage ==
    /\ handled.depth <= 1
    /\ Len(handled.invoked) <= 1
    /\ \A i \in DOMAIN handled.invoked : handled.invoked[i].name \in Builtins
    /\ (handled.depth = 1 /\ Head(handled.content) = default_prefix) =>
            Len(handled.invoked) = 1

\* the custom command render, whose text begins with render, and the custom
\* command rhq, whose text names it, exist; `rhq -d` was handled by one
\* recursion that invoked the built-in render with the arguments of both
C20_Witness ==
    /\ "render" \in DOMAIN command
    /\ command["render"][2] = "render"
    /\ "rhq" \in DOMAIN command
    /\ command["rhq"] = <<".", "render", "-d">>
    /\ handled = [content |-> <<".", "rhq", "-d">>,
                  invoked |-> <<[name |-> "render", args |-> <<"-d", "-d">>]>>,
                  depth |-> 1]

\* a render command is refused by one of the admission gates
Rejected ==
    /\ requests'.render # requests.render
    /\ asked'.verdict \in {"busy", "too_large", "quota"}

\* C18: a render request rejected by an admission gate appends no
\* render_history row, dispatches no render, leaves concurrent_renders as it
\* is and is not kept for a later retry.
C18_RejectedNoEffect ==
    [][Rejected => /\ render_history' = render_history
                   /\ concurrent_renders' = concurrent_renders
                   /\ render' = render]_vars

\* the last request was refused while two renders were running, which are
\* over by now: nothing is running, sending or waiting
C18_Witness ==
    /\ asked.verdict = "busy"
    /\ requests.render = MaxRequests
    /\ \A t \in Renders : render[t].pc = "idle"

\* a startup sweep is active: an on_ready invocation has set defer_indexing
\* and has neither returned nor raised
SweepActive == Running(ready) \/ Running(ready_again)

\* C21: while a startup sweep is active no inbound message is handled by live
\* ingestion: each one is appended to the tail of indexing_queue and neither
\* table is written, also when on_ready is invoked again while an earlier
\* invocation is still running
C21_DeferredWhileSweeping ==
    [][(connected /\ SweepActive /\ Len(history') = Len(history) + 1) =>
          /\ indexing_queue' = Append(indexing_queue, Len(history'))
          /\ snitch_channel' = snitch_channel
          /\ event' = event]_vars

\* C22: queued messages are replayed in arrival order: a message is put at
\* the tail of indexing_queue, the drain takes the message at its head, and
\* it takes none while the message it took before is still being handled
C22_ArrivalOrder ==
    [][indexing_queue' # indexing_queue =>
          \/ /\ Len(history') = Len(history) + 1
             /\ indexing_queue' = Append(indexing_queue, Len(history'))
          \/ /\ indexing_queue # <<>>
             /\ indexing_queue' = Tail(indexing_queue)
             /\ ready.pc = "drain"
             /\ ready'.pc \in {"drain", "notify", "crashed"}]_vars

\* the drain is suspended in the refresh that message 1 has started, and
\* message 2 waits on the queue
C22_Witness ==
    /\ ready.pc = "drain"
    /\ late # {}
    /\ \A m \in late : event[m] = 1
    /\ Len(indexing_queue) = 0

\* C23: at the moment on_ready sets defer_indexing back to False the queue
\* is empty, and it stays empty while ingestion is not deferred
C23_DrainedAtResume ==
    [][/\ (defer_indexing /\ ~defer_indexing') => indexing_queue' = <<>>
       /\ ~defer_indexing' => indexing_queue' = <<>>]_vars

\* the sweep is over; its drain was suspended in a refresh of the livemap and
\* has handled two queued messages
C23_Witness ==
    /\ ~defer_indexing
    /\ connected
    /\ ready.pc = "idle"
    /\ late # {}
    /\ \A m \in late : event[m] = 1

\* C30: the drain handles a queued message of a registered channel that has
\* no last_indexed_id without an error
C30_NoCursorDrained ==
    \A e \in raised : e.exc # "TypeError"

\* C24: a backfill's cursor advance and the events it buffered are committed
\* together or not at all: no committed state holds the cursor a backfill has
\* advanced while an event that backfill had buffered is missing
C24_BackfillAtomic ==
    \A b \in aborted :
        (b.committed /\ b.after > b.before) =>
            \A j \in DOMAIN b.buf : event[b.buf[j]] >= 1

\* C25: a backfill whose history request fails writes nothing: the channel's
\* last_indexed_id is the one the command found, the stored events are those
\* from before, and none of the events buffered so far is saved
C25_FailedBackfillWritesNothing ==
    [][\A t \in IndexTasks, c \in Channels :
          (index[t].pc \in {"send", "last"} /\ index[t].todo # <<>>
                /\ Head(index[t].todo).id = c
                /\ HTTPException(c) \in raised' \ raised) =>
              /\ snitch_channel'[c] = Head(index[t].todo).last_indexed_id
              /\ event' = event
              /\ \A j \in DOMAIN index[t].buf : event'[index[t].buf[j]] = 0]_vars

\* the history of channel 1 has failed after events were buffered, and the
\* matching messages after the cursor have no event
C25_Witness ==
    /\ HTTPException(1) \in raised
    /\ index[1].pc = "idle"
    /\ \E m \in ChannelMessages(1) : m > snitch_channel[1] /\ parse_event(history[m].content)
    /\ \A m \in ChannelMessages(1) :
            (m > snitch_channel[1] /\ parse_event(history[m].content)) => event[m] = 0

\* C26: the backfill of a channel that has no messages and no cursor writes no
\* cursor and no event, and a live snitch message of that channel would still
\* be skipped by maybe_index_message
C26_EmptyBackfillNoCursor ==
    [][\A t \in IndexTasks :
          (index[t].pc = "last" /\ index'[t].pc # "last"
                /\ ChannelMessages(Head(index[t].todo).id) = {}
                /\ snitch_channel[Head(index[t].todo).id] = 0) =>
              LET c == Head(index[t].todo).id
              IN /\ snitch_channel'[c] = 0
                 /\ event' = event
                 /\ \A m \in MsgIds :
                        LET r == maybe_index_message(snitch_channel', event', m,
                                                     [channel |-> c, content |-> "ping"])
                        IN ~r.indexed /\ r.event = event /\ r.snitch_channel = snitch_channel']_vars

\* an .index command has gone through every registered channel of a guild
\* without messages: no channel has a cursor, no event is stored
C26_Witness ==
    /\ index[1].pc = "send"
    /\ index[1].todo = <<>>
    /\ history = <<>>
    /\ DOMAIN snitch_channel # {}
    /\ \A c \in DOMAIN snitch_channel : snitch_channel[c] = 0
    /\ \A m \in MsgIds : event[m] = 0

\* C27: a live message of a channel with a cursor, whose id is greater than
\* the cursor: if it matches a format it gets exactly one event and the
\* cursor becomes its id; if it matches none, the event table, the cursors
\* and the refresh state of the livemap stay as they are
C27_LiveMessageStored ==
    [][\A c \in Channels :
          (Handled(c) /\ c \in DOMAIN snitch_channel /\ snitch_channel[c] # 0
                /\ Len(history') > snitch_channel[c]) =>
              LET m == Len(history')
              IN IF parse_event(history'[m].content)
                 THEN /\ event' = [event EXCEPT ![m] = 1]
                      /\ snitch_channel' = [snitch_channel EXCEPT ![c] = m]
                 ELSE /\ event' = event
                      /\ snitch_channel' = snitch_channel
                      /\ livemaps_refresh_at' = livemaps_refresh_at
                      /\ livemap_updating_channels' = livemap_updating_channels
                      /\ livemap_last_uploaded' = livemap_last_uploaded
                      /\ caller' = caller]_vars

\* a live snitch ping of a backfilled channel was stored after the backfilled
\* one: both have one event and the cursor is the id of the live one
C27_Witness ==
    /\ Len(history) = 2
    /\ history[2] = [channel |-> 1, content |-> "ping"]
    /\ event[1] = 1
    /\ event[2] = 1
    /\ snitch_channel[1] = 2

\* C28: a render that was handed to the rendering process adds exactly one
\* render_history row with its pixels when its handler ends, whether the
\* render succeeded, was too large to upload or failed
C28_EveryRenderRecorded ==
    [][\A t \in Renders :
          (render[t].pc \in {"rendering", "uploading"} /\ render'[t].pc = "idle") =>
              render_history' = add_render_history(render_history, render[t].num_pixels, now)]_vars

\* C29: every startup sweep ends: once on_ready has set defer_indexing, it
\* eventually resets it, also when the backfill of a channel has failed
C29_SweepEnds == defer_indexing ~> ~defer_indexing

\* a notification or the refresh loop starts a refresh of channel c in this step
RefreshStarts(c) ==
    \/ \E k \in Callers :
            /\ caller[k].pc = "idle"
            /\ caller'[k] = [pc |-> "render", kind |-> "notify", chan |-> c, started |-> now]
    \/ /\ sweep'.pc = "render"
       /\ sweep'.chan = c
       /\ sweep.pc = "render" => sweep'.items # sweep.items

\* C31: neither a notification nor the refresh loop starts a refresh of a
\* channel less than Debounce seconds after the time recorded for it in
\* livemap_last_uploaded
C31_DebounceFloor ==
    [][\A c \in LChannels :
          (RefreshStarts(c) /\ c \in DOMAIN livemap_last_uploaded) =>
              now - livemap_last_uploaded[c] >= Debounce]_vars

\* the loop has called update_livemap_channel for a channel with a due
\* timestamp less than Debounce seconds after its last upload and has gone
\* back to sleep: no refresh is running
C31_Witness ==
    \E c \in LChannels :
        /\ sweep.pc = "sleep"
        /\ sweep.calls = <<[chan |-> c, due |-> 1]>>
        /\ now = sweep.next - SweepPeriod
        /\ c \in DOMAIN livemap_last_uploaded
        /\ livemap_last_uploaded[c] < now
        /\ now - livemap_last_uploaded[c] < Debounce
        /\ InFlight(c) = 0

\* the list livemaps_refresh_at[c], empty if the dict has no such key
ScheduleOf(c) == IF DictHas(livemaps_refresh_at, c) THEN DictGet(livemaps_refresh_at, c) ELSE <<>>

\* the last tick of the loop found a due timestamp of channel c, called
\* update_livemap_channel and was turned away by the debounce floor
Suppressed(c) ==
    /\ sweep.pc = "sleep"
    /\ \E j \in DOMAIN sweep.calls : sweep.calls[j].chan = c /\ sweep.calls[j].due > 0
    /\ c \in DOMAIN livemap_last_uploaded
    /\ livemap_last_uploaded[c] < sweep.next - SweepPeriod
    /\ livemap_last_uploaded[c] > sweep.next - SweepPeriod - Debounce

\* C32: a due refresh of a channel that the loop suppressed because of the
\* debounce floor is made up for: with no new notification, a later tick of
\* the loop refreshes the channel
C32_SuppressedRetried ==
    \A c \in LChannels : Suppressed(c) ~> (sweep.pc = "render" /\ sweep.chan = c)

\* C33: a notification of the livemap channel adds its timestamps to the
\* schedule of the channel and keeps those scheduled and not yet due, and it
\* leaves the schedule as it is when a refresh of the channel is running
C33_NotifyAppends ==
    [][arrived'.notify # arrived.notify =>
          LET c == livemap_channel
          IN IF c \in Range(livemap_updating_channels)
             THEN livemaps_refresh_at' = livemaps_refresh_at
             ELSE /\ \A dt \in Range(FutureDts(ScheduleOf(c), now)) : dt \in Range(ScheduleOf(c)')
                  /\ \A dt \in Range(RefreshAt(now)) : dt \in Range(ScheduleOf(c)')]_vars

\* C34: with no further notification the refresh loop never adds a timestamp
\* to a schedule, and from some tick on no refresh is running and every
\* schedule is empty
C34_Quiesces ==
    /\ [][\A c \in LChannels : Len(ScheduleOf(c)') <= Len(ScheduleOf(c))]_vars
    /\ <>[](sweep.pc # "render" /\ \A c \in LChannels : ScheduleOf(c) = <<>>)

\* the position of the first config of the list whose formats the raw event
\* matches, 0 if there is none
FirstMatch(raw_event, configs) ==
    IF \E i \in DOMAIN configs : configs[i] \in raw_event
    THEN Min({i \in DOMAIN configs : configs[i] \in raw_event})
    ELSE 0

\* C35: parse_event tries the default config first and then the guild's in
\* their order, returns the event of the first config that matches without
\* trying a later one, and raises InvalidEventException only when none matches
C35_FirstMatchWins ==
    parsed.called =>
        LET configs == <<DefaultConfig>> \o parsed.kira_configs
            first   == FirstMatch(parsed.raw_event, configs)
            r       == parsed.result
        IN IF first = 0
           THEN ~r.ok /\ r.tried = configs
           ELSE /\ r.ok
                /\ r.event = [raw |-> parsed.raw_event, config |-> configs[first]]
                /\ r.tried = SubSeq(configs, 1, first)

\* a text that matches both configs of the guild and not the default one was
\* parsed with the guild's first config, after the default one had failed
C35_Witness ==
    /\ parsed.called
    /\ parsed.kira_configs = <<2, 1>>
    /\ parsed.raw_event = {1, 2}
    /\ parsed.result.ok
    /\ parsed.result.event.config = 2
    /\ parsed.result.tried = <<DefaultConfig, 2>>

\* the .index commands that have passed their checks and backfill the
\* channels of the guild
Backfilling == {t \in IndexTasks : index[t].pc \in {"send", "last"}}

\* C36: at most one .index command backfills the channels of the guild at any
\* time, however the commands interleave at their suspension points
C36_OneIndexPerGuild == Cardinality(Backfilling) <= 1

\* C37: the refresh loop, resuming after the refresh of one channel, does not
\* undo what a notification has scheduled for another channel meanwhile: every
\* timestamp of that channel's schedule that is not yet due is still in it
\* after the step of the loop
C37_ScheduleNotUndone ==
    [][\A c \in LChannels :
          (sweep.pc = "render" /\ sweep.chan # c /\ sweep' # sweep) =>
              \A dt \in Range(ScheduleOf(c)) : now < dt => dt \in Range(ScheduleOf(c)')]_vars

\* C38: an .index command on a channel that had a cursor when the command
\* began, with live ingestion going on meanwhile, stores its events without an
\* error, and afterwards every matching message of the channel up to the
\* cursor has exactly one event and no event lies beyond the cursor
C38_IndexBesideLive ==
    [][\A t \in IndexTasks :
          (index[t].pc = "last" /\ index'[t].pc # "last"
                /\ Head(index[t].todo).last_indexed_id # 0) =>
              LET c == Head(index[t].todo).id
              IN /\ raised' = raised
                 /\ \A m \in ChannelMessages(c) :
                        /\ event'[m] >= 1 => m <= snitch_channel'[c]
                        /\ (parse_event(history[m].content) /\ m <= snitch_channel'[c]) =>
                                event'[m] = 1]_vars

\* C39: once .full-reindex -y was handled and no .index is running, every
\* registered channel that has messages has a cursor, and the events are one
\* for each matching message of these channels and none else
C39_ReindexedFromScratch ==
    (reindexed /\ \A t \in IndexTasks : index[t].pc = "idle") =>
        \A c \in DOMAIN snitch_channel :
            ChannelMessages(c) # {} =>
                /\ snitch_channel[c] # 0
                /\ \A m \in ChannelMessages(c) :
                        event[m] = IF parse_event(history[m].content) THEN 1 ELSE 0

\* C40: every list of livemaps_refresh_at is in ascending order and has at
\* most RefreshCount + 1 = 11 timestamps
C40_ScheduleSortedBounded ==
    \A i \in DOMAIN livemaps_refresh_at :
        LET refresh_at == livemaps_refresh_at[i].val
        IN /\ Len(refresh_at) <= RefreshCount + 1
           /\ \A j, k \in DOMAIN refresh_at : j < k => refresh_at[j] <= refresh_at[k]

\* the last of several notifications has replaced the schedule of the
\* livemap channel and the loop has since removed its first timestamp
C40_Witness ==
    /\ arrived.notify >= 2
    /\ Len(ScheduleOf(livemap_channel)) = RefreshCount
    /\ sweep.pc = "sleep"
    /\ \E j \in DOMAIN sweep.calls : sweep.calls[j].due = 1

====
